---- MODULE Spec2Model ----
(***************************************************************************)
(* The ingestion buffer and adaptive dispatcher of                         *)
(* weaviate/collection/batch.py: the _Batch object, its two BatchRequest   *)
(* queues, the BatchExecutor worker pool and the batchSizeRefresh thread.  *)
(*                                                                         *)
(* Threads are interleaved at the granularity of the statements that read  *)
(* or write shared state: the code holds no lock anywhere, so a step of    *)
(* another thread may fall between any two such statements.                *)
(***************************************************************************)
EXTENDS Integers, Sequences, FiniteSets, TLC

\* ---------------------------------------------------------------- bounds
MaxObjects == 1        \* add_object calls in a run of Spec
MaxRefs == 1           \* add_reference calls in a run of Spec
MaxFlushes == 1        \* flush() calls in a run of Spec
MaxPolls == 2          \* polls answered with telemetry in a run of Spec
MaxMonitors == 2       \* batchSizeRefresh threads alive at once

\* ------------------------------------------------------ program constants
DefaultBatchSize == 50     \* _Batch.__init__: self.__batch_size
DefaultNumWorkers == 1     \* _Batch.__init__: self.__num_workers
ScaleUpCap == 25           \* periodic_check: min(size * 2, 25)
SizeAfterStop == 10        \* periodic_check: size written when the loop ends
CreationTime == 2          \* _Batch.__init__: min(timeout_config[1] / 10, 2)
GrowthCap == 250           \* reactive rule: recommended size + 250
FrameLength == 5           \* deque(maxlen=5) of throughput samples

Producers == {1, 2}
Monitors == 1..MaxMonitors

VARIABLES
    batch_objects,               \* ObjectsBatchRequest.__items
    batch_references,            \* ReferencesBatchRequest.__items
    batch_size,                  \* _Batch.__batch_size
    num_workers,                 \* _Batch.__num_workers
    recommended_num_objects,     \* _Batch.__recommended_num_objects
    recommended_num_references,  \* _Batch.__recommended_num_references
    new_dynamic_batching,        \* _Batch.__new_dynamic_batching
    executor,                    \* _Batch.__executor: none, running, shutdown
    executor_workers,            \* max_workers the executor was created with
    tasks,                       \* every future ever submitted, by submission
    future_pool_objects,         \* _Batch.__future_pool_objects (task indices)
    future_pool_references,      \* _Batch.__future_pool_references
    reference_batch_queue,       \* _Batch.__reference_batch_queue (see below)
    shut_event,                  \* _Batch.__shut_background_thread_down
    mon,                         \* position of each batchSizeRefresh thread
    mon_new,                     \* what a poll read and computed, yet to be stored
    threads,                     \* the producer threads of this run
    pc,                          \* position of each producer thread
    op,                          \* the public call each producer made last
    pending,                     \* futures as_completed has yet to yield
    rd,                          \* size read by a backoff, yet to be stored
    limits,                      \* how many calls of each kind the run makes
    n_ops,                       \* calls made so far, by kind
    sent,                        \* task indices in the order the Gateway saw them
    ref_drained,                 \* contents of the reference queue at each drain
    configured,                  \* configure(batch_size=n) has been called
    objects_throughput_frame,    \* _Batch.__objects_throughput_frame
    references_throughput_frame, \* _Batch.__references_throughput_frame
    refresh_time,                \* periodic_check: refresh_time of a sleeping
                                 \* thread, in milliseconds
    refresh_warning,             \* the iteration raised batch_refresh_failed
    skip_call,                   \* arguments of a _skip_objects_retry call
    skip_result                  \* what the call returned: skip or retry

vars == << batch_objects, batch_references, batch_size, num_workers,
           recommended_num_objects, recommended_num_references,
           new_dynamic_batching, executor, executor_workers, tasks,
           future_pool_objects, future_pool_references, reference_batch_queue,
           shut_event, mon, mon_new, threads, pc, op, pending, rd, limits,
           n_ops, sent, ref_drained, configured, objects_throughput_frame,
           references_throughput_frame, refresh_time, refresh_warning,
           skip_call, skip_result >>

\* ---------------------------------------------------------------- helpers
Max(a, b) == IF a >= b THEN a ELSE b
Min(a, b) == IF a <= b THEN a ELSE b
Range(s) == {s[i] : i \in 1..Len(s)}
Count(s, x) == Cardinality({i \in 1..Len(s) : s[i] = x})

\* Object k of a run is the k-th add_object; reference k the k-th add_reference.
ObjId(k) == k
RefId(k) == 100 + k

\* ------------------------------------------------------------- size rules
\* A halving that has no floor: size // 2.
halve_without_floor(size) == size \div 2

\* __backoff_recommended_object_batch_size(True): max(size // 2, 1).
backoff_recommended_object_batch_size(size) == Max(size \div 2, 1)

\* sum(frame) of a throughput frame.
RECURSIVE sum(_)
sum(frame) == IF frame = << >> THEN 0 ELSE Head(frame) + sum(Tail(frame))

\* round(n / d) of Python for n >= 0, d > 0: a tie goes to the even integer.
round(n, d) ==
    LET q == n \div d
        r == n % d
    IN IF 2 * r < d THEN q
       ELSE IF 2 * r > d THEN q + 1
       ELSE IF q % 2 = 0 THEN q ELSE q + 1

\* __backoff_recommended_object_batch_size(False) with a non-empty throughput
\* frame of frame_len samples adding up to frame_sum:
\* max(min(round(sum / len * 0.75 * creation_time), size + 250), 1) when
\* __new_dynamic_batching is off, else the size as it is.
recompute_recommended_object_batch_size(size, frame_sum, frame_len, dynamic) ==
    IF frame_len # 0 /\ ~dynamic
    THEN Max(Min(round(3 * frame_sum * CreationTime, 4 * frame_len),
                 size + GrowthCap), 1)
    ELSE size

\* __backoff_recommended_reference_batch_size(False) with a non-empty
\* throughput frame: min(round(sum / len * creation_time), size * 2), with no
\* floor; else the size as it is.
recompute_recommended_reference_batch_size(size, frame_sum, frame_len) ==
    IF frame_len # 0
    THEN Min(round(frame_sum * CreationTime, frame_len), size * 2)
    ELSE size

\* __backoff_recommended_reference_batch_size(True): max(size // 2, 1).
backoff_recommended_reference_batch_size(size) == Max(size \div 2, 1)

\* A scale-up that takes the larger of the two increments.
scale_up_by_max(size) == size + Max(size * 2, ScaleUpCap)

\* periodic_check, batch_length == 0: size + min(size * 2, 25).
scale_up_empty(size) == size + Min(size * 2, ScaleUpCap)

\* A rule that takes the server's whole rate for the rate of one worker.
scale_by_total_rate(size, rate, length, workers) ==
    IF 21 * rate > 10 * length /\ 10 * length > 19 * rate
    THEN rate
    ELSE IF 10 * length <= 19 * rate
    THEN Min((3 * size) \div 2, (2 * rate * rate) \div length)
    ELSE IF length < 10 * rate
    THEN (2 * rate * rate) \div length
    ELSE 0

\* periodic_check, batch_length > 0, with ratio = batch_length / rate and
\* rate_per_worker = rate / num_workers kept as exact fractions:
\*   2.1 > ratio > 1.9  <=>  21 * rate > 10 * length > 19 * rate
\*   rate_per_worker * 2 / ratio = 2 * rate^2 / (num_workers * length)
scale_by_ratio(size, rate, length, workers) ==
    IF 21 * rate > 10 * length /\ 10 * length > 19 * rate
    THEN rate \div workers
    ELSE IF 10 * length <= 19 * rate
    THEN Min((3 * size) \div 2, (2 * rate * rate) \div (workers * length))
    ELSE IF length < 10 * rate
    THEN (2 * rate * rate) \div (workers * length)
    ELSE 0

\* The size a poll stores, from the size it read and the status it got.
periodic_check_size(size, rate, length, workers) ==
    IF length = 0 THEN scale_up_empty(size)
    ELSE scale_by_ratio(size, rate, length, workers)

\* What get_nodes_status can answer: batchStats (ratePerSecond, queueLength),
\* a status without the telemetry fields, a transport error, another error.
EmptyQueue == [rate |-> 4, length |-> 0]
ScaleDown == [rate |-> 2, length |-> 8]      \* ratio 4: the size becomes 1
Overload == [rate |-> 4, length |-> 40]      \* ratio 10: the size becomes 0
Telemetry == {EmptyQueue, ScaleDown, Overload}
PollFaults == {"missing", "transient", "error"}

\* A poll between its status call and its store: the size it read, the
\* status it got and the size it computed.
NoPoll == [size |-> 0, rate |-> 0, length |-> 0, new |-> 0]

\* ------------------------------------------------------------------- Init
NoOps == [objs |-> 0, refs |-> 0, flushes |-> 0, configures |-> 0,
          shutdowns |-> 0, polls |-> 0]

\* The state __init__ leaves, for the producer threads ths and a run that
\* makes at most lim calls of each kind.
InitBatch(ths, lim) ==
    /\ batch_objects = << >>
    /\ batch_references = << >>
    /\ batch_size = DefaultBatchSize
    /\ num_workers = DefaultNumWorkers
    /\ recommended_num_objects = DefaultBatchSize
    /\ recommended_num_references = DefaultBatchSize
    /\ new_dynamic_batching = TRUE
    /\ executor = "none"
    /\ executor_workers = 0
    /\ tasks = << >>
    /\ future_pool_objects = << >>
    /\ future_pool_references = << >>
    /\ reference_batch_queue = 0
    /\ shut_event = "none"
    /\ mon = [m \in Monitors |-> "none"]
    /\ mon_new = [m \in Monitors |-> NoPoll]
    /\ threads = ths
    /\ pc = [p \in Producers |-> "idle"]
    /\ op = [p \in Producers |-> "none"]
    /\ pending = [p \in Producers |-> {}]
    /\ rd = [p \in Producers |-> 0]
    /\ limits = lim
    /\ n_ops = NoOps
    /\ sent = << >>
    /\ ref_drained = << >>
    /\ configured = FALSE
    /\ objects_throughput_frame = << >>
    /\ references_throughput_frame = << >>
    /\ refresh_time = [m \in Monitors |-> 0]
    /\ refresh_warning = [m \in Monitors |-> FALSE]

\* No call of _skip_objects_retry is made in the run.
NoSkipCall == [entry |-> [shape |-> "none", messages |-> << >>],
               errors_to_exclude |-> [given |-> FALSE, patterns |-> {}],
               errors_to_include |-> [given |-> FALSE, patterns |-> {}]]

InitWith(ths, lim) ==
    /\ InitBatch(ths, lim)
    /\ skip_call = NoSkipCall
    /\ skip_result = "unset"

Init ==
    InitWith({1}, [objs |-> MaxObjects, refs |-> MaxRefs,
                   flushes |-> MaxFlushes, configures |-> 0, shutdowns |-> 0,
                   polls |-> MaxPolls])

\* ----------------------------------------------------------------- frames
queues == << batch_objects, batch_references >>
sizes == << recommended_num_objects, recommended_num_references >>
config == << batch_size, num_workers, configured >>
pools == << tasks, future_pool_objects, future_pool_references,
            reference_batch_queue >>
execs == << executor, executor_workers >>
monitor == << shut_event, mon, mon_new, new_dynamic_batching >>
locals == << pending, rd >>
run == << threads, limits, skip_call, skip_result >>
history == << sent, ref_drained >>
frames == << objects_throughput_frame, references_throughput_frame >>
sleeps == << refresh_time, refresh_warning >>

Goto(p, label) == pc' = [pc EXCEPT ![p] = label]

\* A public call of thread p begins: p is between calls.
Call(p, name) ==
    /\ p \in threads
    /\ pc[p] = "idle"
    /\ op' = [op EXCEPT ![p] = name]

\* The public call thread p is inside returns to its caller.
Return(p) == pc' = [pc EXCEPT ![p] = "idle"]

\* The public call thread p made last has returned.
Returned(p, name) == pc[p] = "idle" /\ op[p] = name

\* __send_batch_requests' argument: flush() passes True, __auto_create False.
force_wait(p) == op[p] = "flush"

\* ------------------------------------------------------- start, configure
\* start(): a new BatchExecutor when there is none or it is shut down, and a
\* new Event with a new batchSizeRefresh thread when the Event is None or set.
start ==
    /\ IF executor \in {"none", "shutdown"}
       THEN executor' = "running" /\ executor_workers' = num_workers
       ELSE UNCHANGED execs
    /\ IF shut_event \in {"none", "set"}
       THEN /\ shut_event' = "clear"
            /\ \E m \in Monitors :
                 /\ mon[m] = "none"
                 /\ \A k \in Monitors : k < m => mon[k] # "none"
                 /\ mon' = [mon EXCEPT ![m] = "check"]
       ELSE UNCHANGED << shut_event, mon >>

start_call(p) ==
    /\ Call(p, "start")
    /\ start
    /\ Goto(p, "idle")
    /\ UNCHANGED << frames, sleeps, queues, sizes, config, pools, mon_new,
                    new_dynamic_batching, locals, run, n_ops, history >>

\* configure(batch_size, num_workers): `x or self.__x`, 0 standing for None.
configure(p, size, workers) ==
    /\ Call(p, "configure")
    /\ n_ops.configures < limits.configures
    /\ n_ops' = [n_ops EXCEPT !.configures = @ + 1]
    /\ batch_size' = IF size # 0 THEN size ELSE batch_size
    /\ num_workers' = IF workers # 0 THEN workers ELSE num_workers
    /\ configured' = (configured \/ size # 0)
    /\ Goto(p, "idle")
    /\ UNCHANGED << frames, sleeps, queues, sizes, pools, execs, monitor, locals, run,
                    history >>

\* ------------------------------------------------ add_object, add_reference
\* add_object: BatchRequest.add appends, then __auto_create runs.
add_object(p) ==
    /\ Call(p, "add_object")
    /\ n_ops.objs < limits.objs
    /\ n_ops' = [n_ops EXCEPT !.objs = @ + 1]
    /\ batch_objects' = Append(batch_objects, ObjId(n_ops.objs + 1))
    /\ Goto(p, "auto_create")
    /\ UNCHANGED << frames, sleeps, batch_references, sizes, config, pools, execs, monitor,
                    locals, run, history >>

add_reference(p) ==
    /\ Call(p, "add_reference")
    /\ n_ops.refs < limits.refs
    /\ n_ops' = [n_ops EXCEPT !.refs = @ + 1]
    /\ batch_references' = Append(batch_references, RefId(n_ops.refs + 1))
    /\ Goto(p, "auto_create")
    /\ UNCHANGED << frames, sleeps, batch_objects, sizes, config, pools, execs, monitor,
                    locals, run, history >>

\* An add that puts the operation in the queue before it is validated.
unvalidated_add(queue, item, valid) == Append(queue, item)

\* The queue after add_object / add_reference was given an operation: the
\* operation is built first, which raises when it is malformed, and added
\* only after that.
validated_add(queue, item, valid) ==
    IF valid THEN Append(queue, item) ELSE queue

\* add_object with a malformed operation: BatchObject(...) raises a
\* ValidationError, which is raised to the caller as
\* WeaviateBatchValidationError before add and __auto_create are reached.
add_object_malformed(p) ==
    /\ Call(p, "add_object")
    /\ n_ops.objs < limits.objs
    /\ n_ops' = [n_ops EXCEPT !.objs = @ + 1]
    /\ batch_objects' =
         validated_add(batch_objects, ObjId(n_ops.objs + 1), FALSE)
    /\ Goto(p, "validation_error")
    /\ UNCHANGED << frames, sleeps, batch_references, sizes, config, pools, execs, monitor,
                    locals, run, history >>

\* add_reference with a malformed operation.
add_reference_malformed(p) ==
    /\ Call(p, "add_reference")
    /\ n_ops.refs < limits.refs
    /\ n_ops' = [n_ops EXCEPT !.refs = @ + 1]
    /\ batch_references' =
         validated_add(batch_references, RefId(n_ops.refs + 1), FALSE)
    /\ Goto(p, "validation_error")
    /\ UNCHANGED << frames, sleeps, batch_objects, sizes, config, pools, execs, monitor,
                    locals, run, history >>

\* The caller handles the exception a call raised and goes on.
caller_catches(p) ==
    /\ p \in threads
    /\ pc[p] \in {"validation_error", "gateway_error"}
    /\ Goto(p, "idle")
    /\ UNCHANGED << frames, sleeps, queues, sizes, config, pools, execs, monitor, op, locals,
                    run, n_ops, history >>

\* A threshold that a queue has to exceed.
threshold_exceeded(n_objects, n_references, size_objects, size_references) ==
    n_objects > size_objects \/ n_references > size_references

\* __auto_create's condition: a queue has reached its recommended size.
threshold_reached(n_objects, n_references, size_objects, size_references) ==
    n_objects >= size_objects \/ n_references >= size_references

\* A wait loop that goes on only while both recommended sizes are 0.
overloaded_both(size_objects, size_references) ==
    size_objects = 0 /\ size_references = 0

\* __auto_create's wait loop goes on while either recommended size is 0.
overloaded(size_objects, size_references) ==
    size_objects = 0 \/ size_references = 0

auto_create(p) ==
    /\ p \in threads
    /\ pc[p] = "auto_create"
    /\ IF threshold_reached(Len(batch_objects), Len(batch_references),
                            recommended_num_objects,
                            recommended_num_references)
       THEN Goto(p, "wait")
       ELSE Return(p)
    /\ UNCHANGED << frames, sleeps, queues, sizes, config, pools, execs, monitor, op,
                    pending, rd, run, n_ops, history >>

\* One test of the wait loop that finds both sizes positive; a test that
\* finds a 0 sleeps and tests again, which changes nothing.
wait_loop_exit(p) ==
    /\ p \in threads
    /\ pc[p] = "wait"
    /\ ~overloaded(recommended_num_objects, recommended_num_references)
    /\ Goto(p, "send")
    /\ UNCHANGED << frames, sleeps, queues, sizes, config, pools, execs, monitor, op, locals,
                    run, n_ops, history >>

\* A flush() that goes through __auto_create and its wait loop.
flush_through_auto_create(p) ==
    /\ Call(p, "flush")
    /\ n_ops.flushes < limits.flushes
    /\ n_ops' = [n_ops EXCEPT !.flushes = @ + 1]
    /\ Goto(p, "auto_create")
    /\ UNCHANGED << frames, sleeps, queues, sizes, config, pools, execs, monitor, locals, run, history >>

\* flush(): __send_batch_requests(force_wait=True).
flush(p) ==
    /\ Call(p, "flush")
    /\ n_ops.flushes < limits.flushes
    /\ n_ops' = [n_ops EXCEPT !.flushes = @ + 1]
    /\ Goto(p, "send")
    /\ UNCHANGED << frames, sleeps, queues, sizes, config, pools, execs, monitor, locals, run, history >>

\* --------------------------------------------------- __send_batch_requests
\* A frame with no maximum length.
frame_append_unbounded(frame, sample) == Append(frame, sample)

\* deque(maxlen=5).append(sample): a full frame drops its oldest sample.
frame_append(frame, sample) ==
    IF Len(frame) = FrameLength THEN Append(Tail(frame), sample)
    ELSE Append(frame, sample)

\* A future of the pool: the batch it was submitted with, whether its task
\* has run and whether the task function raised; the tuple the task
\* returned: exc (exception_raised) and, of the batch return, has_errors,
\* errors (index from 0 -> message and original operation) and uuids (index
\* from 0 -> created id); rate, the sample nr / elapsed_seconds; and
\* handled, 0 until the completion loop has taken the future and then the
\* rank of the future among those taken.
NoEntries == [i \in {} |-> 0]

NewTask(kind, batch) ==
    [kind |-> kind, batch |-> batch, done |-> FALSE, raised |-> FALSE,
     exc |-> FALSE, has_errors |-> FALSE, errors |-> NoEntries,
     uuids |-> NoEntries, rate |-> 0, handled |-> 0]

\* The original operations of the errors with the keys given, in the order
\* errors.values() yields them: the order of the keys.
RECURSIVE failed_from(_, _)
failed_from(errors, keys) ==
    IF keys = {} THEN << >>
    ELSE LET k == CHOOSE k \in keys : \A j \in keys : k <= j
         IN  << errors[k].object_ >> \o failed_from(errors, keys \ {k})

\* An optional list of error substrings: None, or the list given.
NoList == [given |-> FALSE, patterns |-> {}]

\* The substrings a caller may list, and a list that is given.
ErrorPatterns == {<< "b" >>, << "c" >>, << "t" >>}
ListOf(patterns) == [given |-> TRUE, patterns |-> patterns]

\* excl in err["message"]: the pattern is a substring of the message.
Contains(message, pattern) ==
    \E i \in 1..(Len(message) - Len(pattern) + 1) :
        SubSeq(message, i, i + Len(pattern) - 1) = pattern

\* A _skip_objects_retry that looks at the include list first.
skip_objects_retry_include_first(messages, errors_to_exclude, errors_to_include) ==
    IF Len(messages) = 0 THEN TRUE
    ELSE IF errors_to_include.given
    THEN ~ \E k \in 1..Len(messages) :
               \E incl \in errors_to_include.patterns :
                   Contains(messages[k], incl)
    ELSE IF errors_to_exclude.given
    THEN \E k \in 1..Len(messages) :
             \E excl \in errors_to_exclude.patterns :
                 Contains(messages[k], excl)
    ELSE FALSE

\* BatchRequest._skip_objects_retry(entry, errors_to_exclude,
\* errors_to_include) for the error messages of an entry: TRUE when the
\* entry is not to be retried. No handler calls it.
skip_objects_retry(messages, errors_to_exclude, errors_to_include) ==
    IF Len(messages) = 0 THEN TRUE
    ELSE IF errors_to_exclude.given
    THEN \E k \in 1..Len(messages) :
             \E excl \in errors_to_exclude.patterns :
                 Contains(messages[k], excl)
    ELSE IF errors_to_include.given
    THEN ~ \E k \in 1..Len(messages) :
               \E incl \in errors_to_include.patterns :
                   Contains(messages[k], incl)
    ELSE FALSE

\* A handler that puts the whole batch of a failed result back.
add_whole_batch_from_response(queue, return_, errors_to_exclude, errors_to_include) ==
    IF return_.has_errors THEN queue \o return_.batch ELSE queue

\* A handler that puts nothing back.
discard_failed_objects(queue, return_, errors_to_exclude, errors_to_include) == queue

\* A handler that puts the failed items in front of the queue.
add_failed_objects_in_front(queue, return_, errors_to_exclude, errors_to_include) ==
    IF return_.kind = "obj" /\ ~return_.has_errors THEN queue
    ELSE failed_from(return_.errors, DOMAIN return_.errors) \o queue

\* _add_failed_objects_from_response(return_, errors_to_exclude,
\* errors_to_include): the queue with the failed items added. Neither list is
\* read; the object queue tests has_errors first, the reference queue does
\* not.
add_failed_objects_from_response(queue, return_, errors_to_exclude, errors_to_include) ==
    IF return_.kind = "obj" /\ ~return_.has_errors THEN queue
    ELSE queue \o failed_from(return_.errors, DOMAIN return_.errors)

\* The rank the completion loops give the next future they take.
NextHandled ==
    1 + Cardinality({g \in 1..Len(tasks) : tasks[g].handled # 0})

\* A send that takes the executor as it is.
send_start_without_restart(p) ==
    /\ p \in threads
    /\ pc[p] = "send"
    /\ Goto(p, "submit")
    /\ UNCHANGED << frames, sleeps, queues, sizes, config, pools, execs,
                    monitor, op, locals, run, n_ops, history >>

\* __send_batch_requests begins: start() is called when there is no
\* executor or the executor is shut down.
send_start(p) ==
    /\ p \in threads
    /\ pc[p] = "send"
    /\ IF executor = "running"
       THEN UNCHANGED << execs, shut_event, mon >>
       ELSE start
    /\ Goto(p, "submit")
    /\ UNCHANGED << frames, sleeps, queues, sizes, config, pools, mon_new,
                    new_dynamic_batching, op, locals, run, n_ops,
                    history >>

\* A submission that does not test the length of the object queue.
submit_unconditionally(p) ==
    /\ p \in threads
    /\ pc[p] = "submit"
    /\ tasks' = Append(tasks, NewTask("obj", batch_objects))
    /\ future_pool_objects' = Append(future_pool_objects, Len(tasks) + 1)
    /\ IF Len(batch_references) > 0
       THEN /\ reference_batch_queue' = reference_batch_queue + 1
            /\ ref_drained' = Append(ref_drained, batch_references)
       ELSE UNCHANGED << reference_batch_queue, ref_drained >>
    /\ Goto(p, "clear")
    /\ UNCHANGED << frames, sleeps, queues, sizes, config, future_pool_references, execs,
                    monitor, op, locals, run, n_ops, sent >>

\* A non-empty object queue is copied (list(items)) and submitted; for a
\* non-empty reference queue the deque `items` returns, which is the queue's
\* own deque and not a copy, is appended to __reference_batch_queue. Every
\* entry of __reference_batch_queue is therefore that one deque, and the
\* list is modelled by its length.
submit(p) ==
    /\ p \in threads
    /\ pc[p] = "submit"
    /\ IF Len(batch_objects) > 0
       THEN /\ tasks' = Append(tasks, NewTask("obj", batch_objects))
            /\ future_pool_objects' =
                 Append(future_pool_objects, Len(tasks) + 1)
       ELSE UNCHANGED << tasks, future_pool_objects >>
    /\ IF Len(batch_references) > 0
       THEN /\ reference_batch_queue' = reference_batch_queue + 1
            /\ ref_drained' = Append(ref_drained, batch_references)
       ELSE UNCHANGED << reference_batch_queue, ref_drained >>
    /\ Goto(p, "clear")
    /\ UNCHANGED << frames, sleeps, queues, sizes, config, future_pool_references, execs,
                    monitor, op, locals, run, n_ops, sent >>

\* Both queues are cleared in place.
clear(p) ==
    /\ p \in threads
    /\ pc[p] = "clear"
    /\ batch_objects' = << >>
    /\ batch_references' = << >>
    /\ Goto(p, "gate")
    /\ UNCHANGED << frames, sleeps, sizes, config, pools, execs, monitor, op, locals, run, n_ops, history >>

\* A test that lets every send that is not forced return without waiting.
returns_early_whatever_the_pool(force, workers, n_pool) == ~force

\* A test that does not look at force_wait.
returns_early_unforced(force, workers, n_pool) ==
    workers > 1 /\ n_pool < workers

\* A test that also lets a full pool return without waiting.
returns_early_at_capacity(force, workers, n_pool) ==
    ~force /\ workers > 1 /\ n_pool <= workers

\* The test that lets __send_batch_requests return without waiting.
returns_early(force, workers, n_pool) ==
    ~force /\ workers > 1 /\ n_pool < workers

\* Either the call returns, or as_completed takes the futures now in the
\* object pool.
gate(p) ==
    /\ p \in threads
    /\ pc[p] = "gate"
    /\ IF returns_early(force_wait(p), num_workers, Len(future_pool_objects))
       THEN /\ Return(p)
            /\ UNCHANGED pending
       ELSE /\ Goto(p, "await_objects")
            /\ pending' = [pending EXCEPT ![p] = Range(future_pool_objects)]
    /\ UNCHANGED << frames, sleeps, queues, sizes, config, pools, execs, monitor, op,
                    rd, run, n_ops, history >>

\* as_completed yields a finished object future: nothing more when it did
\* not raise (the throughput sample is taken), else its failed items are
\* added back and the backoff reads the recommended size.
object_future_done(p, f) ==
    /\ p \in threads
    /\ pc[p] = "await_objects"
    /\ f \in pending[p]
    /\ tasks[f].done
    /\ pending' = [pending EXCEPT ![p] = @ \ {f}]
    /\ tasks' = [tasks EXCEPT ![f].handled = NextHandled]
    /\ IF tasks[f].raised
       THEN /\ Goto(p, "gateway_error")
            /\ UNCHANGED << batch_objects, rd >>
       ELSE IF tasks[f].exc
       THEN /\ batch_objects' =
                 add_failed_objects_from_response(batch_objects, tasks[f],
                                                  NoList, NoList)
            /\ rd' = [rd EXCEPT ![p] = recommended_num_objects]
            /\ Goto(p, "backoff_objects")
       ELSE UNCHANGED << batch_objects, rd, pc >>
    /\ IF ~tasks[f].raised /\ ~tasks[f].exc
       THEN objects_throughput_frame' =
              frame_append(objects_throughput_frame, tasks[f].rate)
       ELSE UNCHANGED objects_throughput_frame
    /\ UNCHANGED << sleeps, references_throughput_frame, batch_references, sizes, config, future_pool_objects,
                    future_pool_references, reference_batch_queue, execs,
                    monitor, op, run, n_ops, history >>

\* The backoff stores the halved size.
backoff_objects(p) ==
    /\ p \in threads
    /\ pc[p] = "backoff_objects"
    /\ recommended_num_objects' = backoff_recommended_object_batch_size(rd[p])
    /\ rd' = [rd EXCEPT ![p] = 0]
    /\ Goto(p, "await_objects")
    /\ UNCHANGED << frames, sleeps, queues, recommended_num_references, config, pools, execs,
                    monitor, op, pending, run, n_ops, history >>

\* A submission of the drained references that does not wait for the object
\* futures.
submit_references_at_once(p) ==
    /\ p \in threads
    /\ pc[p] = "await_objects"
    /\ tasks' = tasks \o [i \in 1..reference_batch_queue |->
                            NewTask("ref", batch_references)]
    /\ future_pool_references' =
         future_pool_references \o
           [i \in 1..reference_batch_queue |-> Len(tasks) + i]
    /\ pending' = [pending EXCEPT ![p] = Range(future_pool_references')]
    /\ Goto(p, "await_references")
    /\ UNCHANGED << frames, sleeps, queues, sizes, config, future_pool_objects,
                    reference_batch_queue, execs, monitor, op, rd, run, n_ops, history >>

\* Every object future was handled: one reference task is submitted per
\* entry of __reference_batch_queue, each with a copy of what the reference
\* queue's deque holds now, and as_completed takes the reference pool.
submit_references(p) ==
    /\ p \in threads
    /\ pc[p] = "await_objects"
    /\ pending[p] = {}
    /\ tasks' = tasks \o [i \in 1..reference_batch_queue |->
                            NewTask("ref", batch_references)]
    /\ future_pool_references' =
         future_pool_references \o
           [i \in 1..reference_batch_queue |-> Len(tasks) + i]
    /\ pending' = [pending EXCEPT ![p] = Range(future_pool_references')]
    /\ Goto(p, "await_references")
    /\ UNCHANGED << frames, sleeps, queues, sizes, config, future_pool_objects,
                    reference_batch_queue, execs, monitor, op, rd, run, n_ops, history >>

reference_future_done(p, f) ==
    /\ p \in threads
    /\ pc[p] = "await_references"
    /\ f \in pending[p]
    /\ tasks[f].done
    /\ pending' = [pending EXCEPT ![p] = @ \ {f}]
    /\ tasks' = [tasks EXCEPT ![f].handled = NextHandled]
    /\ IF tasks[f].raised
       THEN /\ Goto(p, "gateway_error")
            /\ UNCHANGED << batch_references, rd >>
       ELSE IF tasks[f].exc
       THEN /\ batch_references' =
                 add_failed_objects_from_response(batch_references, tasks[f],
                                                  NoList, NoList)
            /\ rd' = [rd EXCEPT ![p] = recommended_num_references]
            /\ Goto(p, "backoff_references")
       ELSE UNCHANGED << batch_references, rd, pc >>
    /\ IF ~tasks[f].raised /\ ~tasks[f].exc
       THEN references_throughput_frame' =
              frame_append(references_throughput_frame, tasks[f].rate)
       ELSE UNCHANGED references_throughput_frame
    /\ UNCHANGED << sleeps, objects_throughput_frame, batch_objects, sizes, config, future_pool_objects,
                    future_pool_references, reference_batch_queue, execs,
                    monitor, op, run, n_ops, history >>

backoff_references(p) ==
    /\ p \in threads
    /\ pc[p] = "backoff_references"
    /\ recommended_num_references' =
         backoff_recommended_reference_batch_size(rd[p])
    /\ rd' = [rd EXCEPT ![p] = 0]
    /\ Goto(p, "await_references")
    /\ UNCHANGED << frames, sleeps, queues, recommended_num_objects, config, pools, execs,
                    monitor, op, pending, run, n_ops, history >>

\* Every reference future was handled: the pools and the list are cleared
\* and the call returns.
send_end(p) ==
    /\ p \in threads
    /\ pc[p] = "await_references"
    /\ pending[p] = {}
    /\ future_pool_objects' = << >>
    /\ future_pool_references' = << >>
    /\ reference_batch_queue' = 0
    /\ Return(p)
    /\ UNCHANGED << frames, sleeps, queues, sizes, config, tasks, execs, monitor, op, locals,
                    run, n_ops, history >>

\* ------------------------------------------------------------ worker pool
\* The executor runs submitted tasks in submission order on max_workers
\* threads: a task can be running when fewer than max_workers unfinished
\* tasks were submitted before it. The tasks that run together finish in
\* any order.
CanRun(f) ==
    /\ f \in 1..Len(tasks)
    /\ ~tasks[f].done
    /\ Cardinality({g \in 1..(f - 1) : ~tasks[g].done}) < executor_workers

\* What the Gateway does with a batch: it accepts it, or the call raises.
Outcomes == {"ok", "exc"}

\* repr(e) of the exception a Gateway call raises, and the messages the
\* Gateway gives the items it rejects; a message is a sequence of characters.
TransportMessage == << "t", "o" >>
ItemMessages == {<< "a", "b" >>, << "c" >>}

\* nr / elapsed_seconds of an accepted batch of one operation, in operations
\* per second; a batch of n operations takes as long and measures n times
\* as much.
MeasuredRate == 400

\* What the Gateway call returns for a batch of which it rejects the items
\* at the indices `failed` with `message`: errors keyed by those indices,
\* has_errors when there are any, and the id of every other item at its
\* index.
GatewayReturn(task, failed, message) ==
    [task EXCEPT
       !.done = TRUE,
       !.exc = FALSE,
       !.has_errors = (failed # {}),
       !.errors = [i \in failed |->
                     [message |-> message, object_ |-> task.batch[i + 1]]],
       !.uuids = IF task.kind = "obj"
                 THEN [i \in (0..(Len(task.batch) - 1)) \ failed |->
                         task.batch[i + 1]]
                 ELSE NoEntries,
       !.rate = Len(task.batch) * MeasuredRate]

\* A task function without the except clause: the exception of the Gateway
\* call ends the task, and the future's result() raises it again.
TaskResultUncaught(task, outcome) ==
    IF outcome = "exc"
    THEN [task EXCEPT !.done = TRUE, !.raised = TRUE]
    ELSE GatewayReturn(task, {}, << >>)

\* A blanket failure that does not set has_errors.
TaskResultWithoutFlag(task, outcome) ==
    IF outcome = "exc"
    THEN [task EXCEPT
            !.done = TRUE,
            !.exc = TRUE,
            !.errors = [i \in 0..(Len(task.batch) - 1) |->
                          [message |-> TransportMessage,
                           object_ |-> task.batch[i + 1]]]]
    ELSE GatewayReturn(task, {}, << >>)

\* A result whose blanket failure numbers the items from 1.
TaskResultKeyedFromOne(task, outcome) ==
    IF outcome = "exc"
    THEN [task EXCEPT
            !.done = TRUE,
            !.exc = TRUE,
            !.has_errors = TRUE,
            !.errors = [i \in 1..Len(task.batch) |->
                          [message |-> TransportMessage,
                           object_ |-> task.batch[i]]]]
    ELSE GatewayReturn(task, {}, << >>)

\* The result of a task. The Gateway's return is passed on with
\* exception_raised False; an exception is caught and every item of the
\* batch becomes an error keyed by its position, with no id and 0 items
\* counted.
TaskResult(task, outcome) ==
    IF outcome = "exc"
    THEN [task EXCEPT
            !.done = TRUE,
            !.raised = FALSE,
            !.exc = TRUE,
            !.has_errors = TRUE,
            !.errors = [i \in 0..(Len(task.batch) - 1) |->
                          [message |-> TransportMessage,
                           object_ |-> task.batch[i + 1]]],
            !.uuids = NoEntries]
    ELSE GatewayReturn(task, {}, << >>)

\* __flush_objects runs on a worker thread.
flush_objects(f, outcome) ==
    /\ CanRun(f)
    /\ tasks[f].kind = "obj"
    /\ tasks' = [tasks EXCEPT ![f] = TaskResult(tasks[f], outcome)]
    /\ sent' = Append(sent, f)
    /\ UNCHANGED << frames, sleeps, queues, sizes, config, future_pool_objects,
                    future_pool_references, reference_batch_queue, execs,
                    monitor, pc, op, locals, run, n_ops, ref_drained >>

\* __flush_objects on a worker thread, the Gateway accepting the batch and
\* rejecting the items at the indices `failed`.
flush_objects_partial(f, failed, message) ==
    /\ CanRun(f)
    /\ tasks[f].kind = "obj"
    /\ failed # {}
    /\ failed \subseteq 0..(Len(tasks[f].batch) - 1)
    /\ tasks' = [tasks EXCEPT ![f] = GatewayReturn(tasks[f], failed, message)]
    /\ sent' = Append(sent, f)
    /\ UNCHANGED << frames, sleeps, queues, sizes, config, future_pool_objects,
                    future_pool_references, reference_batch_queue, execs,
                    monitor, pc, op, locals, run, n_ops, ref_drained >>

\* __flush_references runs on a worker thread.
flush_references(f, outcome) ==
    /\ CanRun(f)
    /\ tasks[f].kind = "ref"
    /\ tasks' = [tasks EXCEPT ![f] = TaskResult(tasks[f], outcome)]
    /\ sent' = Append(sent, f)
    /\ UNCHANGED << frames, sleeps, queues, sizes, config, future_pool_objects,
                    future_pool_references, reference_batch_queue, execs,
                    monitor, pc, op, locals, run, n_ops, ref_drained >>

\* --------------------------------------------------------------- shutdown
\* shutdown(): executor.shutdown() marks the executor shut down and joins
\* its workers, which run every submitted task first; then the Event is set.
shutdown(p) ==
    /\ Call(p, "shutdown")
    /\ n_ops.shutdowns < limits.shutdowns
    /\ n_ops' = [n_ops EXCEPT !.shutdowns = @ + 1]
    /\ executor' = IF executor = "running" THEN "shutdown" ELSE executor
    /\ Goto(p, "shutdown_join")
    /\ UNCHANGED << frames, sleeps, queues, sizes, config, pools, executor_workers, monitor,
                    locals, run, history >>

shutdown_join(p) ==
    /\ p \in threads
    /\ pc[p] = "shutdown_join"
    /\ \A f \in 1..Len(tasks) : tasks[f].done
    /\ shut_event' = IF shut_event = "none" THEN "none" ELSE "set"
    /\ Return(p)
    /\ UNCHANGED << frames, sleeps, queues, sizes, config, pools, execs, mon, mon_new,
                    new_dynamic_batching, op, locals, run, n_ops, history >>

\* ------------------------------------------------- batchSizeRefresh thread
\* The loop condition: the Event the object holds now is there and not set.
mon_check(m) ==
    /\ mon[m] = "check"
    /\ mon' = [mon EXCEPT ![m] = IF shut_event = "clear" THEN "poll"
                                 ELSE "exit"]
    /\ UNCHANGED << frames, sleeps, queues, sizes, config, pools, execs, shut_event, mon_new,
                    new_dynamic_batching, pc, op, locals, run, n_ops,
                    history >>

\* get_nodes_status answers with telemetry: the new size is computed from
\* the size read now, and stored by the next step. A counted poll is one of
\* the limits.polls polls of the run.
mon_poll(m, status, counted) ==
    /\ mon[m] = "poll"
    /\ IF counted
       THEN /\ n_ops.polls < limits.polls
            /\ n_ops' = [n_ops EXCEPT !.polls = @ + 1]
       ELSE UNCHANGED n_ops
    /\ mon_new' = [mon_new EXCEPT ![m] =
         [size |-> recommended_num_objects,
          rate |-> status.rate,
          length |-> status.length,
          new |-> periodic_check_size(recommended_num_objects, status.rate,
                                      status.length, num_workers)]]
    /\ mon' = [mon EXCEPT ![m] = "store"]
    /\ UNCHANGED << frames, sleeps, queues, sizes, config, pools, execs, shut_event,
                    new_dynamic_batching, pc, op, locals, run, history >>

\* A store that gives both recommended sizes the new value.
mon_store_both_sizes(m) ==
    /\ mon[m] = "store"
    /\ recommended_num_objects' = mon_new[m].new
    /\ recommended_num_references' = mon_new[m].new
    /\ mon_new' = [mon_new EXCEPT ![m] = NoPoll]
    /\ mon' = [mon EXCEPT ![m] = "check"]
    /\ UNCHANGED << frames, sleeps, queues, config, pools, execs, shut_event,
                    new_dynamic_batching, pc, op, locals, run, n_ops, history >>

mon_store(m) ==
    /\ mon[m] = "store"
    /\ recommended_num_objects' = mon_new[m].new
    /\ mon_new' = [mon_new EXCEPT ![m] = NoPoll]
    /\ mon' = [mon EXCEPT ![m] = "check"]
    /\ UNCHANGED << frames, sleeps, queues, recommended_num_references,
                    config, pools, execs, shut_event, new_dynamic_batching,
                    pc, op, locals, run, n_ops, history >>

\* A poll whose failure ends the thread.
mon_fault_stops(m, fault) ==
    /\ mon[m] = "poll"
    /\ IF fault = "missing"
       THEN new_dynamic_batching' = FALSE
       ELSE UNCHANGED new_dynamic_batching
    /\ mon' = [mon EXCEPT ![m] = "none"]
    /\ UNCHANGED << frames, sleeps, queues, sizes, config, pools, execs,
                    shut_event, mon_new, pc, op, locals, run, n_ops,
                    history >>

\* get_nodes_status answers without the telemetry fields: the thread ends
\* and the object falls back for good. Or it raises: RequestsHTTPError and
\* ReadTimeout give refresh_time 0.1, any other exception a warning and
\* refresh_time 10, and the thread goes to sleep.
mon_fault(m, fault) ==
    /\ mon[m] = "poll"
    /\ IF fault = "missing"
       THEN /\ new_dynamic_batching' = FALSE
            /\ mon' = [mon EXCEPT ![m] = "none"]
            /\ UNCHANGED sleeps
       ELSE /\ mon' = [mon EXCEPT ![m] = "sleep"]
            /\ refresh_time' =
                 [refresh_time EXCEPT ![m] = IF fault = "transient" THEN 100
                                             ELSE 10000]
            /\ refresh_warning' =
                 [refresh_warning EXCEPT ![m] = (fault = "error")]
            /\ UNCHANGED new_dynamic_batching
    /\ UNCHANGED << frames, queues, sizes, config, pools, execs, shut_event,
                    mon_new, pc, op, locals, run, n_ops, history >>

\* time.sleep(refresh_time) after a poll that raised ends and the loop
\* tests its condition again. (The sleep of 2 seconds after a poll that
\* stored a size touches no shared state and is part of mon_store.)
mon_sleep(m) ==
    /\ mon[m] = "sleep"
    /\ refresh_time' = [refresh_time EXCEPT ![m] = 0]
    /\ refresh_warning' = [refresh_warning EXCEPT ![m] = FALSE]
    /\ mon' = [mon EXCEPT ![m] = "check"]
    /\ UNCHANGED << frames, queues, sizes, config, pools, execs, shut_event,
                    mon_new, new_dynamic_batching, pc, op, locals, run, n_ops,
                    history >>

\* An end of the loop that empties the object queue.
mon_exit_clears(m) ==
    /\ mon[m] = "exit"
    /\ recommended_num_objects' = SizeAfterStop
    /\ batch_objects' = << >>
    /\ mon' = [mon EXCEPT ![m] = "exit_event"]
    /\ UNCHANGED << frames, sleeps, batch_references,
                    recommended_num_references, config, pools, execs,
                    shut_event, mon_new, new_dynamic_batching, pc, op, locals,
                    run, n_ops, history >>

\* The loop has ended: the size is set to 10, then the Event to None.
mon_exit(m) ==
    /\ mon[m] = "exit"
    /\ recommended_num_objects' = SizeAfterStop
    /\ mon' = [mon EXCEPT ![m] = "exit_event"]
    /\ UNCHANGED << frames, sleeps, queues, recommended_num_references, config, pools, execs,
                    shut_event, mon_new, new_dynamic_batching, pc, op, locals,
                    run, n_ops, history >>

mon_exit_event(m) ==
    /\ mon[m] = "exit_event"
    /\ shut_event' = "none"
    /\ mon' = [mon EXCEPT ![m] = "none"]
    /\ UNCHANGED << frames, sleeps, queues, sizes, config, pools, execs, mon_new,
                    new_dynamic_batching, pc, op, locals, run, n_ops,
                    history >>

\* ------------------------------------------------------------------- Next
\* add_object, add_reference and flush(), with every step of __auto_create
\* and __send_batch_requests.
Producer(p) ==
    \/ add_object(p)
    \/ add_reference(p)
    \/ flush(p)
    \/ auto_create(p)
    \/ wait_loop_exit(p)
    \/ send_start(p)
    \/ submit(p)
    \/ clear(p)
    \/ gate(p)
    \/ \E f \in pending[p] : object_future_done(p, f)
    \/ backoff_objects(p)
    \/ submit_references(p)
    \/ \E f \in pending[p] : reference_future_done(p, f)
    \/ backoff_references(p)
    \/ send_end(p)

ObjectWorker(outcomes) ==
    \E f \in 1..Len(tasks), outcome \in outcomes : flush_objects(f, outcome)

ReferenceWorker(outcomes) ==
    \E f \in 1..Len(tasks), outcome \in outcomes :
      flush_references(f, outcome)

MonitorLoop(m) ==
    \/ mon_check(m)
    \/ \E status \in Telemetry : mon_poll(m, status, TRUE)
    \/ mon_store(m)
    \/ \E fault \in PollFaults : mon_fault(m, fault)
    \/ mon_sleep(m)

\* One producer thread adds and flushes against a Gateway that accepts or
\* raises, while the batchSizeRefresh thread polls.
Next ==
    \/ Producer(1)
    \/ ObjectWorker(Outcomes)
    \/ ReferenceWorker(Outcomes)
    \/ \E m \in Monitors : MonitorLoop(m)

Spec == Init /\ [][Next]_vars

\* ------------------------------------------------- concurrent producers
MaxConcObjects == 2    \* add_object calls in a run of SpecConc
MaxConcFlushes == 2    \* flush() calls in a run of SpecConc

InitConc ==
    InitWith({1, 2}, [objs |-> MaxConcObjects, refs |-> 0,
                      flushes |-> MaxConcFlushes, configures |-> 0,
                      shutdowns |-> 0, polls |-> 0])

\* add_object and flush() on a Gateway that accepts every batch.
ObjectProducer(p) ==
    \/ add_object(p)
    \/ flush(p)
    \/ auto_create(p)
    \/ send_start(p)
    \/ submit(p)
    \/ clear(p)
    \/ gate(p)
    \/ \E f \in pending[p] : object_future_done(p, f)
    \/ submit_references(p)
    \/ send_end(p)

\* Two producer threads add objects and flush; the batchSizeRefresh thread
\* sleeps throughout.
NextConc ==
    \/ \E p \in Producers : ObjectProducer(p)
    \/ ObjectWorker({"ok"})

SpecConc == InitConc /\ [][NextConc]_vars

\* ------------------------------------------------- a failing Gateway
MaxFailObjects == 2    \* add_object calls in a run of SpecFail
MaxFailFlushes == 5    \* flush() calls in a run of SpecFail

InitFail ==
    InitWith({1}, [objs |-> MaxFailObjects, refs |-> 0,
                   flushes |-> MaxFailFlushes, configures |-> 0,
                   shutdowns |-> 0, polls |-> 0])

\* One producer adds objects and flushes against a Gateway whose every call
\* fails with a transport error: each object send raises and so does each
\* status poll.
NextFail ==
    \/ ObjectProducer(1)
    \/ wait_loop_exit(1)
    \/ backoff_objects(1)
    \/ ObjectWorker({"exc"})
    \/ \E m \in Monitors :
         mon_check(m) \/ mon_fault(m, "transient") \/ mon_sleep(m)

SpecFail == InitFail /\ [][NextFail]_vars

\* ------------------------------------------------- recovery from overload
MaxRecoverObjects == 2    \* add_object calls in a run of SpecRecover
MaxRecoverFlushes == 1    \* flush() calls in a run of SpecRecover
MaxRecoverPolls == 2      \* polls before the server's queue is empty for good
MaxSize == 75             \* an empty-queue poll scales up from at most this

InitRecover ==
    InitWith({1}, [objs |-> MaxRecoverObjects, refs |-> 0,
                   flushes |-> MaxRecoverFlushes, configures |-> 0,
                   shutdowns |-> 0, polls |-> MaxRecoverPolls])

\* The batchSizeRefresh thread of a server that is loaded during the first
\* limits.polls polls and whose queue is empty in every poll after them.
RecoveringMonitor(m) ==
    \/ mon_check(m)
    \/ \E status \in {ScaleDown, Overload} : mon_poll(m, status, TRUE)
    \/ /\ n_ops.polls = limits.polls
       /\ recommended_num_objects <= MaxSize
       /\ mon_poll(m, EmptyQueue, FALSE)
    \/ mon_store(m)

RecoverProducer(p) == ObjectProducer(p) \/ wait_loop_exit(p)

NextRecover ==
    \/ RecoverProducer(1)
    \/ ObjectWorker({"ok"})
    \/ \E m \in Monitors : RecoveringMonitor(m)

\* Every thread keeps running: the producer, the worker threads and the
\* batchSizeRefresh thread each take a step when they can.
SpecRecover ==
    /\ InitRecover
    /\ [][NextRecover]_vars
    /\ WF_vars(RecoverProducer(1))
    /\ WF_vars(ObjectWorker({"ok"}))
    /\ WF_vars(\E m \in Monitors : RecoveringMonitor(m))

\* ------------------------------------------------- the 120-object scenario
\* 120 objects: two full batches of the fixed size and 20 more.
E2EObjects == 2 * DefaultBatchSize + 20
MaxE2EPolls == 1       \* polls answered with telemetry in a run of SpecE2E

InitE2E ==
    InitWith({1}, [objs |-> E2EObjects, refs |-> 0, flushes |-> 1,
                   configures |-> 1, shutdowns |-> 0, polls |-> MaxE2EPolls])

\* configure(batch_size=50), start(), 120 add_object calls, then flush(),
\* against a Gateway that accepts every batch and reports an empty queue.
NextE2E ==
    \/ configure(1, DefaultBatchSize, 0)
    \/ (configured /\ op[1] = "configure" /\ start_call(1))
    \/ (op[1] \in {"start", "add_object"} /\ add_object(1))
    \/ (n_ops.objs = limits.objs /\ flush(1))
    \/ auto_create(1)
    \/ wait_loop_exit(1)
    \/ send_start(1)
    \/ submit(1)
    \/ clear(1)
    \/ gate(1)
    \/ \E f \in pending[1] : object_future_done(1, f)
    \/ submit_references(1)
    \/ send_end(1)
    \/ ObjectWorker({"ok"})
    \/ \E m \in Monitors :
         mon_check(m) \/ mon_poll(m, EmptyQueue, TRUE) \/ mon_store(m)

SpecE2E == InitE2E /\ [][NextE2E]_vars

\* ------------------------------------------------- configure()
MaxConfigures == 1        \* configure() calls in a run of SpecConfig
MaxConfigObjects == 2     \* add_object calls in a run of SpecConfig
MaxConfigRefs == 1        \* add_reference calls in a run of SpecConfig
MaxConfigFlushes == 1     \* flush() calls in a run of SpecConfig
MaxConfigPolls == 2       \* polls answered with telemetry in a run of SpecConfig

ConfigureSizes == {0, 2}
ConfigureWorkers == {0, 2}

InitConfig ==
    InitWith({1}, [objs |-> MaxConfigObjects, refs |-> MaxConfigRefs,
                   flushes |-> MaxConfigFlushes,
                   configures |-> MaxConfigures, shutdowns |-> 0,
                   polls |-> MaxConfigPolls])

\* Spec with configure() calls: a batch size, a number of workers, or both.
NextConfig ==
    \/ \E size \in ConfigureSizes, workers \in ConfigureWorkers :
         configure(1, size, workers)
    \/ Producer(1)
    \/ ObjectWorker(Outcomes)
    \/ ReferenceWorker(Outcomes)
    \/ \E m \in Monitors : MonitorLoop(m)

SpecConfig == InitConfig /\ [][NextConfig]_vars

\* ------------------------------------------------- two workers
MaxGateObjects == 2       \* add_object calls in a run of SpecGate
MaxGateRefs == 1          \* add_reference calls in a run of SpecGate
MaxGateFlushes == 1       \* flush() calls in a run of SpecGate
MaxGatePolls == 1         \* polls answered with telemetry in a run of SpecGate

InitGate ==
    InitWith({1}, [objs |-> MaxGateObjects, refs |-> MaxGateRefs,
                   flushes |-> MaxGateFlushes, configures |-> 1,
                   shutdowns |-> 0, polls |-> MaxGatePolls])

GateProducer(p) ==
    \/ ObjectProducer(p)
    \/ wait_loop_exit(p)
    \/ add_reference(p)
    \/ \E f \in pending[p] : reference_future_done(p, f)

\* One producer adds and flushes, and at some point calls
\* configure(num_workers=2); the Gateway accepts every batch and the server
\* reports a queue that calls for a smaller batch.
NextGate ==
    \/ \E workers \in ConfigureWorkers \ {0} : configure(1, 0, workers)
    \/ GateProducer(1)
    \/ ObjectWorker({"ok"})
    \/ ReferenceWorker({"ok"})
    \/ \E m \in Monitors :
         mon_check(m) \/ mon_poll(m, ScaleDown, TRUE) \/ mon_store(m)

SpecGate == InitGate /\ [][NextGate]_vars

\* ------------------------------------------------- failures
MaxErrObjects == 3        \* add_object calls in a run of SpecErrors
MaxErrRefs == 1           \* add_reference calls in a run of SpecErrors
MaxErrFlushes == 1        \* flush() calls in a run of SpecErrors

InitErrors ==
    InitWith({1}, [objs |-> MaxErrObjects, refs |-> MaxErrRefs,
                   flushes |-> MaxErrFlushes, configures |-> 0,
                   shutdowns |-> 0, polls |-> 0])

\* The Gateway accepts a batch and rejects some of its items.
PartialWorker ==
    \E f \in 1..Len(tasks), message \in ItemMessages :
      \E failed \in SUBSET (0..(Len(tasks[f].batch) - 1)) :
        flush_objects_partial(f, failed, message)

\* add_object, add_reference, flush() and every step they take when no
\* queue reaches its recommended size.
ErrorsProducer(p) ==
    \/ ObjectProducer(p)
    \/ backoff_objects(p)
    \/ add_reference(p)
    \/ \E f \in pending[p] : reference_future_done(p, f)
    \/ backoff_references(p)
    \/ add_object_malformed(p)
    \/ add_reference_malformed(p)
    \/ caller_catches(p)

\* One producer adds well-formed and malformed operations and flushes; the
\* Gateway accepts a batch, rejects some of its items or raises; the
\* batchSizeRefresh thread sleeps throughout.
NextErrors ==
    \/ ErrorsProducer(1)
    \/ ObjectWorker(Outcomes)
    \/ ReferenceWorker(Outcomes)
    \/ PartialWorker

SpecErrors == InitErrors /\ [][NextErrors]_vars

\* ----------------------------------------------------------------- claims
\* No producer thread is inside a public call.
\* ------------------------------------------------- the polls
MaxPollPolls == 2         \* polls answered with telemetry in a run of SpecPoll

\* Statuses on both sides of each threshold of the ratio.
Sustainable == [rate |-> 6, length |-> 12]    \* ratio 2
Headroom == [rate |-> 6, length |-> 3]        \* ratio 0.5
LowerEdge == [rate |-> 10, length |-> 19]     \* ratio 1.9
UpperEdge == [rate |-> 10, length |-> 21]     \* ratio 2.1
PollTelemetry == Telemetry \cup {Sustainable, Headroom, LowerEdge, UpperEdge}

InitPoll ==
    InitWith({1}, [objs |-> 0, refs |-> 0, flushes |-> 0, configures |-> 1,
                   shutdowns |-> 0, polls |-> MaxPollPolls])

\* start(), before or after a configure(num_workers=2), and the
\* batchSizeRefresh thread against a server that answers with any status,
\* without the telemetry fields, or raises.
NextPoll ==
    \/ \E workers \in ConfigureWorkers \ {0} : configure(1, 0, workers)
    \/ start_call(1)
    \/ \E m \in Monitors :
         \/ mon_check(m)
         \/ \E status \in PollTelemetry : mon_poll(m, status, TRUE)
         \/ mon_store(m)
         \/ \E fault \in PollFaults : mon_fault(m, fault)
         \/ mon_sleep(m)

SpecPoll == InitPoll /\ [][NextPoll]_vars

\* ------------------------------------------------- start and shutdown
MaxLifeObjects == 1       \* add_object calls in a run of SpecLife
MaxLifeFlushes == 1       \* flush() calls in a run of SpecLife
MaxLifeShutdowns == 1     \* shutdown() calls in a run of SpecLife
MaxLifePolls == 1         \* polls answered with telemetry in a run of SpecLife

InitLife ==
    InitWith({1}, [objs |-> MaxLifeObjects, refs |-> 0,
                   flushes |-> MaxLifeFlushes, configures |-> 0,
                   shutdowns |-> MaxLifeShutdowns, polls |-> MaxLifePolls])

\* start(), add_object, flush() and shutdown(), in any order.
LifeProducer(p) ==
    \/ start_call(p)
    \/ ObjectProducer(p)
    \/ shutdown(p)
    \/ shutdown_join(p)

\* A batchSizeRefresh thread, from its first loop test to its end.
LifeMonitor(m) ==
    \/ mon_check(m)
    \/ mon_poll(m, EmptyQueue, TRUE)
    \/ mon_store(m)
    \/ \E fault \in PollFaults : mon_fault(m, fault)
    \/ mon_sleep(m)
    \/ mon_exit(m)
    \/ mon_exit_event(m)

\* One caller starts, adds, flushes and shuts down in any order against a
\* Gateway that accepts every batch, while the batchSizeRefresh threads run.
NextLife ==
    \/ LifeProducer(1)
    \/ ObjectWorker({"ok"})
    \/ \E m \in Monitors : LifeMonitor(m)

SpecLife == InitLife /\ [][NextLife]_vars

\* Every thread that can take a step takes one in the end.
SpecLifeFair ==
    /\ InitLife
    /\ [][NextLife]_vars
    /\ WF_vars(LifeProducer(1))
    /\ WF_vars(ObjectWorker({"ok"}))
    /\ \A m \in Monitors : WF_vars(LifeMonitor(m))

\* ------------------------------------------------- shutdown under backpressure
MaxStopObjects == 1       \* add_object calls in a run of SpecStop
MaxStopFlushes == 1       \* flush() calls in a run of SpecStop
MaxStopShutdowns == 1     \* shutdown() calls in a run of SpecStop
MaxStopPolls == 1         \* polls answered with telemetry in a run of SpecStop

InitStop ==
    InitWith({1, 2}, [objs |-> MaxStopObjects, refs |-> 0,
                      flushes |-> MaxStopFlushes, configures |-> 0,
                      shutdowns |-> MaxStopShutdowns, polls |-> MaxStopPolls])

\* The thread that adds and flushes, and may wait in __auto_create.
StopProducer(p) == ObjectProducer(p) \/ wait_loop_exit(p)

\* The thread that calls start() and shutdown().
StopCaller(p) == start_call(p) \/ shutdown(p) \/ shutdown_join(p)

\* A batchSizeRefresh thread whose polls are answered with a ratio of 10.
StopMonitor(m) ==
    \/ mon_check(m)
    \/ mon_poll(m, Overload, TRUE)
    \/ mon_store(m)
    \/ \E fault \in PollFaults : mon_fault(m, fault)
    \/ mon_sleep(m)
    \/ mon_exit(m)
    \/ mon_exit_event(m)

\* One thread adds objects while another starts and shuts down the batch;
\* the Gateway accepts every batch and the server reports an overload.
NextStop ==
    \/ StopProducer(1)
    \/ StopCaller(2)
    \/ ObjectWorker({"ok"})
    \/ \E m \in Monitors : StopMonitor(m)

SpecStop == InitStop /\ [][NextStop]_vars

\* Every thread that is inside a call or a loop takes its next step in the
\* end; nothing makes a caller begin a call.
SpecStopFair ==
    /\ InitStop
    /\ [][NextStop]_vars
    /\ WF_vars(auto_create(1) \/ wait_loop_exit(1) \/ send_start(1)
                 \/ submit(1) \/ clear(1) \/ gate(1) \/ submit_references(1)
                 \/ send_end(1)
                 \/ \E f \in pending[1] : object_future_done(1, f))
    /\ WF_vars(shutdown_join(2))
    /\ WF_vars(ObjectWorker({"ok"}))
    /\ \A m \in Monitors : WF_vars(StopMonitor(m))

\* ------------------------------------------------- flush() under backpressure
MaxFlushObjects == 1      \* add_object calls in a run of SpecFlush
MaxFlushFlushes == 1      \* flush() calls in a run of SpecFlush
MaxFlushPolls == 1        \* polls answered with telemetry in a run of SpecFlush

InitFlush ==
    InitWith({1}, [objs |-> MaxFlushObjects, refs |-> 0,
                   flushes |-> MaxFlushFlushes, configures |-> 0,
                   shutdowns |-> 0, polls |-> MaxFlushPolls])

\* The steps inside add_object and flush(), once the call has begun.
FlushSteps(p) ==
    \/ auto_create(p)
    \/ wait_loop_exit(p)
    \/ send_start(p)
    \/ submit(p)
    \/ clear(p)
    \/ gate(p)
    \/ \E f \in pending[p] : object_future_done(p, f)
    \/ backoff_objects(p)
    \/ submit_references(p)
    \/ send_end(p)

\* start(), add_object and flush().
FlushProducer(p) ==
    \/ start_call(p)
    \/ add_object(p)
    \/ flush(p)
    \/ FlushSteps(p)

\* A batchSizeRefresh thread whose polls are answered with a ratio of 4 or
\* of 10, or fail.
FlushMonitor(m) ==
    \/ mon_check(m)
    \/ \E status \in {ScaleDown, Overload} : mon_poll(m, status, TRUE)
    \/ mon_store(m)
    \/ \E fault \in PollFaults : mon_fault(m, fault)
    \/ mon_sleep(m)

\* One caller starts, adds and flushes against a Gateway that accepts or
\* raises, while the server reports a long queue.
NextFlush ==
    \/ FlushProducer(1)
    \/ ObjectWorker(Outcomes)
    \/ \E m \in Monitors : FlushMonitor(m)

SpecFlush == InitFlush /\ [][NextFlush]_vars

\* A call that has begun goes on, and every submitted task ends.
SpecFlushFair ==
    /\ InitFlush
    /\ [][NextFlush]_vars
    /\ WF_vars(FlushSteps(1))
    /\ WF_vars(ObjectWorker(Outcomes))

\* ------------------------------------------------- _skip_objects_retry
MaxMessages == 2          \* error messages of an entry in a run of SpecSkip

\* The messages an error of an entry can carry.
Messages == ItemMessages \cup {TransportMessage}

\* The lists of at most n messages.
MessageLists(n) == UNION {[1..k -> Messages] : k \in 0..n}

\* The entries of a response: a result that is empty, that has no "errors",
\* whose "errors" has no "error", or whose "errors"["error"] is a list.
Entries ==
    {[shape |-> s, messages |-> << >>] :
       s \in {"empty_result", "no_errors", "no_error"}}
    \cup {[shape |-> "errors", messages |-> ms] : ms \in MessageLists(MaxMessages)}

\* entry["result"]["errors"]["error"] where the first test finds one.
error_messages(entry) ==
    IF entry.shape = "errors" THEN entry.messages ELSE << >>

\* None, or a list of substrings.
OptionalLists == {NoList} \cup {ListOf(patterns) : patterns \in SUBSET ErrorPatterns}

InitSkip ==
    /\ InitBatch({1}, [objs |-> 0, refs |-> 0, flushes |-> 0, configures |-> 0,
                       shutdowns |-> 0, polls |-> 0])
    /\ skip_call \in [entry : Entries, errors_to_exclude : OptionalLists,
                       errors_to_include : OptionalLists]
    /\ skip_result = "unset"

\* _skip_objects_retry(entry, errors_to_exclude, errors_to_include) returns.
skip_objects_retry_call ==
    /\ skip_result = "unset"
    /\ skip_result' =
         IF skip_objects_retry(error_messages(skip_call.entry),
                               skip_call.errors_to_exclude,
                               skip_call.errors_to_include)
         THEN "skip" ELSE "retry"
    /\ UNCHANGED << frames, sleeps, queues, sizes, config, pools, execs, monitor,
                    pc, op, locals, threads, limits, n_ops, history, skip_call >>

NextSkip == skip_objects_retry_call

SpecSkip == InitSkip /\ [][NextSkip]_vars

\* ------------------------------------------------- requeue with two workers
MaxOrderObjects == 3      \* add_object calls in a run of SpecOrder
MaxOrderFlushes == 2      \* flush() calls in a run of SpecOrder
MaxOrderPolls == 1        \* polls answered with telemetry in a run of SpecOrder

InitOrder ==
    InitWith({1}, [objs |-> MaxOrderObjects, refs |-> 0,
                   flushes |-> MaxOrderFlushes, configures |-> 1,
                   shutdowns |-> 0, polls |-> MaxOrderPolls])

OrderProducer(p) ==
    \/ ObjectProducer(p)
    \/ wait_loop_exit(p)
    \/ backoff_objects(p)

\* One producer adds objects and flushes, and at some point calls
\* configure(num_workers=2); the Gateway accepts a batch or raises; the
\* server reports a queue that calls for a smaller batch, so that adds send.
NextOrder ==
    \/ \E workers \in ConfigureWorkers \ {0} : configure(1, 0, workers)
    \/ OrderProducer(1)
    \/ ObjectWorker(Outcomes)
    \/ \E m \in Monitors :
         mon_check(m) \/ mon_poll(m, ScaleDown, TRUE) \/ mon_store(m)

SpecOrder == InitOrder /\ [][NextOrder]_vars

\* ------------------------------------------------- throughput samples
MaxFrameObjects == 7      \* add_object calls in a run of SpecFrame
MaxFrameFlushes == 7      \* flush() calls in a run of SpecFrame
MaxFrameFailures == 1     \* sends that raise in a run of SpecFrame

InitFrame ==
    InitWith({1}, [objs |-> MaxFrameObjects, refs |-> 0,
                   flushes |-> MaxFrameFlushes, configures |-> 0,
                   shutdowns |-> 0, polls |-> 0])

\* add_object, and flush() when there is something to send.
FrameProducer(p) ==
    \/ (pc[p] = "idle" => batch_objects # << >>) /\ ObjectProducer(p)
    \/ add_object(p)
    \/ backoff_objects(p)

\* The Gateway accepts a batch, or raises while it has raised less than
\* MaxFrameFailures times.
FrameWorker ==
    \/ ObjectWorker({"ok"})
    \/ /\ Cardinality({f \in 1..Len(tasks) : tasks[f].exc}) < MaxFrameFailures
       /\ ObjectWorker({"exc"})

\* One producer adds objects and flushes more often than a frame is long;
\* the batchSizeRefresh thread sleeps throughout.
NextFrame ==
    \/ FrameProducer(1)
    \/ FrameWorker

SpecFrame == InitFrame /\ [][NextFrame]_vars

Quiescent == \A p \in threads : pc[p] = "idle"

\* The object tasks: the snapshots of the object queue handed to the pool.
ObjectTasks == {f \in 1..Len(tasks) : tasks[f].kind = "obj"}
ReferenceTasks == {f \in 1..Len(tasks) : tasks[f].kind = "ref"}

\* How many times operation x is in the object queue and in the snapshots.
Occurrences(x) ==
    Count(batch_objects, x)
    + Cardinality(UNION {{<< f, i >> : i \in {j \in 1..Len(tasks[f].batch) :
                                                tasks[f].batch[j] = x}} :
                         f \in ObjectTasks})

\* C1: under concurrent producers every added object is, once the calls
\* have returned, in exactly one place: still queued or in exactly one
\* drained snapshot (none lost by a drain, none drained twice).
C1_EachObjectDrainedOnce ==
    Quiescent => \A k \in 1..n_ops.objs : Occurrences(ObjId(k)) = 1

\* The position of reference task f among the reference tasks.
ReferenceTaskRank(f) == Cardinality({g \in ReferenceTasks : g <= f})

\* C2: each reference task carries what the reference queue held when it
\* was drained for it, and once a forced flush of the single producer has
\* returned every reference added so far was in a batch handed to the
\* Gateway.
C2_DrainedReferencesAreSent ==
    /\ \A f \in ReferenceTasks :
         /\ ReferenceTaskRank(f) <= Len(ref_drained)
         /\ tasks[f].batch = ref_drained[ReferenceTaskRank(f)]
    /\ Returned(1, "flush") =>
         \A k \in 1..n_ops.refs :
           \E f \in ReferenceTasks :
             tasks[f].done /\ RefId(k) \in Range(tasks[f].batch)

\* Object tasks whose Gateway call raised.
FailedObjectTasks == {f \in ObjectTasks : tasks[f].done /\ tasks[f].exc}

\* C3: with a Gateway that always fails, the recommended object size never
\* grows and is never below 1, every failed object flush that is handled
\* leads to the backoff, and the backoff stores max(previous // 2, 1).
C3_FailedFlushHalvesDownToOne ==
    [][/\ recommended_num_objects' <= recommended_num_objects
       /\ recommended_num_objects' >= 1
       /\ \A f \in pending[1] \ pending'[1] :
            tasks[f].exc => pc'[1] = "backoff_objects"
       /\ (pc[1] = "backoff_objects" /\ pc'[1] # "backoff_objects") =>
            recommended_num_objects' =
              Max(recommended_num_objects \div 2, 1)]_vars

\* Six object flushes failed and were handled: the size went 50, 25, 12, 6,
\* 3, 1 and stayed 1.
C3_Witness ==
    /\ Quiescent
    /\ Cardinality(FailedObjectTasks) = 6
    /\ recommended_num_objects = 1

C5_BlockedProducerProceeds ==
    (pc[1] = "wait" /\ recommended_num_objects = 0
       /\ n_ops.polls = limits.polls)
      ~> (pc[1] # "wait")

\* C6: a producer in the wait loop of __auto_create submits nothing and
\* drains nothing, and it leaves the loop only from a state in which both
\* recommended sizes are positive, to go on to the drain.
C6_NoSubmitWhileOverloaded ==
    [][pc[1] = "wait" =>
         /\ Len(tasks') = Len(tasks)
         /\ batch_objects' = batch_objects
         /\ batch_references' = batch_references
         /\ pc'[1] # "wait" =>
              /\ recommended_num_objects > 0
              /\ recommended_num_references > 0
              /\ pc'[1] = "send"]_vars

\* A producer whose add reached the threshold waits while the object size
\* is 0.
C6_Witness ==
    /\ pc[1] = "wait"
    /\ op[1] = "add_object"
    /\ recommended_num_objects = 0

\* The batch sizes of the Gateway's calls, in the order it saw them.
SentSizes == [i \in 1..Len(sent) |-> Len(tasks[sent[i]].batch)]

\* C7: with the batch size fixed at 50 and a Gateway that succeeds, once
\* the flush after 120 adds has returned the Gateway saw exactly three
\* object batches, of 50, 50 and 20 objects, and the object queue is empty.
C7_ThreeBatches_50_50_20 ==
    (Returned(1, "flush") /\ n_ops.objs = E2EObjects) =>
      /\ SentSizes = << DefaultBatchSize, DefaultBatchSize, 20 >>
      /\ \A i \in 1..Len(sent) : tasks[sent[i]].kind = "obj"
      /\ Len(batch_objects) = 0

\* C8: once configure(batch_size=n) has been called, both recommended sizes
\* are n (and so nothing changes them afterwards).
C8_FixedSizeIsTheThreshold ==
    configured =>
      /\ recommended_num_objects = batch_size
      /\ recommended_num_references = batch_size

\* C9: the check an add makes after appending goes on to the flush path
\* exactly when a queue has reached its recommended size; otherwise the add
\* returns with nothing drained or submitted, and the add itself appended
\* exactly one operation.
C9_AddFlushesIffThresholdReached ==
    [][/\ (pc[1] = "idle" /\ pc'[1] = "auto_create") =>
            Len(batch_objects') + Len(batch_references')
              = Len(batch_objects) + Len(batch_references) + 1
       /\ (pc[1] = "auto_create" /\ pc'[1] # "auto_create") =>
            /\ pc'[1] = "wait" <=>
                 (Len(batch_objects) >= recommended_num_objects
                  \/ Len(batch_references) >= recommended_num_references)
            /\ pc'[1] # "wait" =>
                 /\ pc'[1] = "idle"
                 /\ UNCHANGED << queues, pools, history >>]_vars

\* An add_object that found the queue at its recommended size returned with
\* its object handed to the worker pool and the queue empty.
C9_Witness ==
    /\ Returned(1, "add_object")
    /\ batch_objects = << >>
    /\ recommended_num_objects >= 1
    /\ \E f \in ObjectTasks : tasks[f].batch = << ObjId(1) >>

\* The flush tasks submitted and not completed.
InFlight == {f \in 1..Len(tasks) : ~tasks[f].done}

\* C10, as amended: after its submission a flush returns without waiting
\* exactly when it is not forced, the configured concurrency is above 1 and
\* the object pool holds fewer futures, completed or not, than the
\* concurrency; otherwise it returns only when no flush task is in flight.
C10_EarlyReturnBelowConcurrency ==
    [][/\ (pc[1] = "gate" /\ pc'[1] # "gate") =>
            (pc'[1] = "idle" <=>
               /\ op[1] # "flush"
               /\ num_workers > 1
               /\ Len(future_pool_objects) < num_workers)
       /\ (pc[1] = "await_references" /\ pc'[1] = "idle") =>
            InFlight = {}]_vars

\* C10 as claimed: after its submission a flush that is not forced and
\* finds fewer flush tasks in flight than the configured concurrency returns
\* without waiting (it returns at once, or has no task to wait for and no
\* drained references left to send); any other flush waits, and returns
\* only when no flush task is in flight.
C10_EarlyReturnBelowInFlight ==
    [][/\ (pc[1] = "gate" /\ pc'[1] # "gate") =>
            IF op[1] # "flush" /\ Cardinality(InFlight) < num_workers
            THEN \/ pc'[1] = "idle"
                 \/ InFlight = {} /\ reference_batch_queue = 0
            ELSE pc'[1] = "await_objects"
       /\ (pc[1] = "await_references" /\ pc'[1] = "idle") =>
            InFlight = {}]_vars

\* With two workers configured, an add returned without waiting while the
\* batch it submitted is in flight.
C10_Witness ==
    /\ Returned(1, "add_object")
    /\ num_workers = 2
    /\ \E f \in Range(future_pool_objects) : f \in InFlight

\* C11: when flush() has returned no flush task is in flight: every batch
\* submitted so far has completed and the completion loop has taken its
\* result, and the two future pools and the list of deferred reference
\* batches are empty.
C11_FlushReturnsWithNothingInFlight ==
    Returned(1, "flush") =>
      /\ InFlight = {}
      /\ \A f \in 1..Len(tasks) : tasks[f].handled # 0
      /\ future_pool_objects = << >>
      /\ future_pool_references = << >>
      /\ reference_batch_queue = 0
      /\ pending[1] = {}

\* With two workers configured, a flush() that had a batch to wait for has
\* returned.
C11_Witness ==
    /\ Returned(1, "flush")
    /\ num_workers = 2
    /\ ObjectTasks # {}

\* The futures the completion loops take in this step.
TakenNow == {f \in 1..Len(tasks) : tasks[f].handled = 0 /\ tasks'[f].handled # 0}

\* C12: when the completion loop takes an object result that reports
\* per-item failures without a transport exception, the original operations
\* of the failed items are in the queue afterwards.
C12_PartialFailuresAreRequeued ==
    [][\A f \in TakenNow :
         (tasks[f].kind = "obj" /\ ~tasks[f].exc /\ tasks[f].has_errors) =>
           \A i \in DOMAIN tasks[f].errors :
             tasks[f].errors[i].object_ \in Range(batch_objects')]_vars

\* The queue a result of the given kind is requeued into.
QueueOf(kind) == IF kind = "obj" THEN batch_objects ELSE batch_references

\* The operations of s from position n + 1 on.
Rest(s, n) == SubSeq(s, n + 1, Len(s))

\* C13: the failure handler, given any batch result and the queue, returns
\* the queue followed by the original operation of each reported error, one
\* for one and in the order of the errors: the queue grows by the number of
\* reported errors, no item the result reports as created is added, and a
\* result without errors leaves the queue as it is.
C13_HandlerAppendsExactlyTheFailed ==
    \A f \in 1..Len(tasks) :
      tasks[f].done =>
        LET queue == QueueOf(tasks[f].kind)
            errors == tasks[f].errors
            after == add_failed_objects_from_response(queue, tasks[f],
                                                      NoList, NoList)
            added == Rest(after, Len(queue))
        IN  /\ SubSeq(after, 1, Len(queue)) = queue
            /\ Len(after) = Len(queue) + Cardinality(DOMAIN errors)
            /\ \A x \in Range(added) :
                 Count(added, x) =
                   Cardinality({i \in DOMAIN errors : errors[i].object_ = x})
            /\ \A i \in DOMAIN tasks[f].uuids :
                 tasks[f].batch[i + 1] \notin Range(added)
            /\ (DOMAIN errors = {} => after = queue)

\* A result with a failed and a created item is there, and so is a result
\* without errors, while an operation waits in the queue.
C13_Witness ==
    /\ batch_objects # << >>
    /\ \E f \in ObjectTasks :
         /\ tasks[f].done
         /\ DOMAIN tasks[f].errors # {}
         /\ DOMAIN tasks[f].uuids # {}
    /\ \E f \in 1..Len(tasks) : tasks[f].done /\ DOMAIN tasks[f].errors = {}

\* The tasks that finish in this step.
DoneNow == {f \in 1..Len(tasks) : ~tasks[f].done /\ tasks'[f].done}

\* C14: when the Gateway call raises for a batch of n operations the task
\* reports has_errors, errors keyed 0..n-1 with entry i carrying the
\* operation at position i of the batch, and no created id; when the
\* completion loop takes that result, all n operations are appended to their
\* queue in their original order.
C14_TransportFailureIsBlanketAndRequeued ==
    [][/\ \A f \in DoneNow :
            tasks'[f].exc =>
              /\ tasks'[f].has_errors
              /\ DOMAIN tasks'[f].errors = 0..(Len(tasks[f].batch) - 1)
              /\ \A i \in DOMAIN tasks'[f].errors :
                   tasks'[f].errors[i].object_ = tasks[f].batch[i + 1]
              /\ DOMAIN tasks'[f].uuids = {}
       /\ \A f \in TakenNow :
            tasks[f].exc =>
              IF tasks[f].kind = "obj"
              THEN batch_objects' = batch_objects \o tasks[f].batch
              ELSE batch_references' = batch_references \o tasks[f].batch
      ]_vars

\* The Gateway call raised for a batch of two objects or more, and the
\* completion loop has put them back in the queue.
C14_Witness ==
    \E f \in ObjectTasks :
      /\ tasks[f].exc
      /\ tasks[f].handled # 0
      /\ Len(tasks[f].batch) >= 2
      /\ batch_objects = tasks[f].batch

\* C15: no failure of the Gateway, transport exception or rejected items,
\* is raised out of add_object, add_reference or flush: no call ends with
\* an exception from a flush task.
C15_GatewayFailuresAreNotRaised ==
    \A p \in Producers : pc[p] # "gateway_error"

\* flush() has returned after it took a result with rejected items and a
\* result of a Gateway call that raised.
C15_Witness ==
    /\ Returned(1, "flush")
    /\ \E f \in 1..Len(tasks) :
         tasks[f].handled # 0 /\ tasks[f].has_errors /\ ~tasks[f].exc
    /\ \E f \in 1..Len(tasks) : tasks[f].handled # 0 /\ tasks[f].exc

\* C16: an add_object or add_reference that raises a validation error
\* leaves both queues, both counts, the submitted tasks and the pools as
\* they were, and the call ends there: the thread is back at its caller
\* without a flush having started.
C16_MalformedAddChangesNothing ==
    [][\A p \in Producers :
         /\ (pc[p] = "idle" /\ pc'[p] = "validation_error") =>
              /\ op'[p] \in {"add_object", "add_reference"}
              /\ batch_objects' = batch_objects
              /\ batch_references' = batch_references
              /\ tasks' = tasks
              /\ reference_batch_queue' = reference_batch_queue
              /\ future_pool_objects' = future_pool_objects
         /\ (pc[p] = "validation_error" /\ pc'[p] # "validation_error") =>
              /\ pc'[p] = "idle"
              /\ UNCHANGED << queues, pools >>
      ]_vars

\* A malformed operation was refused while an operation given earlier
\* waits in the queue.
C16_Witness ==
    /\ pc[1] = "validation_error"
    /\ op[1] = "add_object"
    /\ Len(batch_objects) = 1
    /\ n_ops.objs = 2

\* C17: in the result of an object batch of n items the errors are keyed by
\* indices of the batch, has_errors is true exactly when there is an error,
\* and every item that is not an error has its id at the index it had in
\* the batch, where no error is keyed.
C17_ResultIsKeyedByBatchIndex ==
    \A f \in ObjectTasks :
      tasks[f].done =>
        LET n == Len(tasks[f].batch)
            errors == tasks[f].errors
            uuids == tasks[f].uuids
        IN  /\ DOMAIN errors \subseteq 0..(n - 1)
            /\ tasks[f].has_errors <=> (DOMAIN errors # {})
            /\ DOMAIN uuids \cap DOMAIN errors = {}
            /\ \A i \in DOMAIN errors : errors[i].object_ = tasks[f].batch[i + 1]
            /\ ~tasks[f].exc =>
                 \A i \in (0..(n - 1)) \ DOMAIN errors :
                   i \in DOMAIN uuids /\ uuids[i] = tasks[f].batch[i + 1]

\* Of a batch of three objects the Gateway rejected the first and the
\* third: the errors are keyed 0 and 2 and the id of the second is at 1.
C17_Witness ==
    \E f \in ObjectTasks :
      /\ tasks[f].done
      /\ Len(tasks[f].batch) = 3
      /\ tasks[f].has_errors
      /\ DOMAIN tasks[f].errors = {0, 2}
      /\ DOMAIN tasks[f].uuids = {1}
      /\ tasks[f].uuids[1] = tasks[f].batch[2]

\* Both queues are empty and no batch is outstanding.
NothingToSend ==
    /\ batch_objects = << >>
    /\ batch_references = << >>
    /\ future_pool_objects = << >>
    /\ future_pool_references = << >>
    /\ reference_batch_queue = 0

C19_RequeueHonoursFilters ==
    \A f \in 1..Len(tasks) :
      tasks[f].done =>
        \A patterns \in (SUBSET ErrorPatterns) \ {{}} :
          \A i \in DOMAIN tasks[f].errors :
            LET e == tasks[f].errors[i]
                excluding ==
                  add_failed_objects_from_response(<< >>, tasks[f],
                                                   ListOf(patterns), NoList)
                including ==
                  add_failed_objects_from_response(<< >>, tasks[f], NoList,
                                                   ListOf(patterns))
            IN /\ skip_objects_retry(<< e.message >>, ListOf(patterns), NoList)
                    => e.object_ \notin Range(excluding)
               /\ skip_objects_retry(<< e.message >>, NoList, ListOf(patterns))
                    => e.object_ \notin Range(including)

\* floor(0.75 * averageThroughput * targetBatchWindow) over a frame.
TargetSize(frame) ==
    (3 * sum(frame) * CreationTime) \div (4 * Len(frame))

\* C20: without congestion telemetry (__new_dynamic_batching off), when the
\* completion loop takes an object flush that did not raise, the recommended
\* object size becomes max(1, min(floor(0.75 * average throughput * window),
\* previous + 250)).
C20_SuccessfulFlushRecomputesSize ==
    [][\A f \in TakenNow :
         (tasks[f].kind = "obj" /\ ~tasks[f].exc /\ ~tasks[f].raised
            /\ ~new_dynamic_batching) =>
           recommended_num_objects' =
             Max(1, Min(TargetSize(objects_throughput_frame'),
                        recommended_num_objects + GrowthCap))]_vars

\* round(average throughput * window) over a frame.
ReferenceTargetSize(frame) == round(sum(frame) * CreationTime, Len(frame))

\* C21: the backoff that follows a reference flush that raised stores half
\* the recommended reference size, at least 1; and when the completion loop
\* takes a reference flush that did not raise, the recommended reference
\* size becomes min(round(average throughput * window), 2 * previous).
C21_ReferenceSizeMirrorsObjectSize ==
    [][/\ (pc[1] = "backoff_references" /\ pc'[1] # pc[1]) =>
            recommended_num_references' =
              Max(recommended_num_references \div 2, 1)
       /\ \A f \in TakenNow :
            (tasks[f].kind = "ref" /\ ~tasks[f].exc /\ ~tasks[f].raised) =>
              recommended_num_references' =
                Min(ReferenceTargetSize(references_throughput_frame'),
                    2 * recommended_num_references)]_vars

\* The throughput samples of the flushes of a kind that did not raise, in the
\* order the completion loops took them.
Sampled(kind) ==
    {f \in 1..Len(tasks) : tasks[f].kind = kind /\ tasks[f].handled # 0
                             /\ ~tasks[f].exc /\ ~tasks[f].raised}
SampleHistory(kind) ==
    [i \in 1..Cardinality(Sampled(kind)) |->
       LET f == CHOOSE f \in Sampled(kind) :
                  Cardinality({g \in Sampled(kind) :
                                 tasks[g].handled < tasks[f].handled}) = i - 1
       IN Len(tasks[f].batch) * MeasuredRate]

\* The last n elements of s, or s when it is shorter.
LastN(s, n) == IF Len(s) <= n THEN s ELSE SubSeq(s, Len(s) - n + 1, Len(s))

\* C22: each throughput frame holds one sample, items sent over elapsed
\* seconds, for each flush of its kind that the completion loop took and
\* that did not raise, none for a flush that raised, and only the last
\* FrameLength of them.
C22_FrameHoldsTheLastFiveSamples ==
    /\ objects_throughput_frame = LastN(SampleHistory("obj"), FrameLength)
    /\ references_throughput_frame = LastN(SampleHistory("ref"), FrameLength)
    /\ Len(objects_throughput_frame) <= FrameLength
    /\ Len(references_throughput_frame) <= FrameLength

\* Six object flushes were accepted and one raised: the first sample, of a
\* batch of two, has left the frame.
C22_Witness ==
    /\ Len(SampleHistory("obj")) = FrameLength + 1
    /\ SampleHistory("obj")[1] = 2 * MeasuredRate
    /\ objects_throughput_frame = [i \in 1..FrameLength |-> MeasuredRate]
    /\ \E f \in 1..Len(tasks) : tasks[f].exc /\ tasks[f].handled # 0

\* The size the stated rule gives a poll that read size current and got
\* ratePerSecond rate and queueLength length > 0, for a given concurrency.
\* The thresholds are compared and the floors taken in exact fractions:
\* ratio = length / rate, ratePerWorker = rate / concurrency.
StatedPollSize(current, rate, length, concurrency) ==
    LET ratioBelow(n, d) == d * length < n * rate      \* ratio < n / d
        ratioAtMost(n, d) == d * length <= n * rate    \* ratio <= n / d
        perWorker == rate \div concurrency
        proportional == (2 * rate * rate) \div (concurrency * length)
    IN IF ~ratioAtMost(19, 10) /\ ratioBelow(21, 10) THEN perWorker
       ELSE IF ratioAtMost(19, 10)
       THEN Min((3 * current) \div 2, proportional)
       ELSE IF ratioBelow(10, 1) THEN proportional
       ELSE 0

C24_FallbackIsPermanent ==
    [][~new_dynamic_batching =>
         \A m \in Monitors : ~(mon[m] = "store" /\ mon'[m] # "store")]_vars

\* C25: a poll ends in a stored size, in the fallback (the telemetry fields
\* are missing) or in a sleep. A poll that raised changes no recommended
\* size and sleeps either 0.1 seconds without a warning, less than the 2
\* seconds after a stored size, or 10 seconds with a warning, more than
\* that; after the sleep the loop tests its condition, and polls again when
\* the stop signal is there and not set.
C25_FailingPollKeepsTheLoop ==
    [][\A m \in Monitors :
         /\ (mon[m] = "poll" /\ mon'[m] # "poll") =>
              \/ mon'[m] = "store"
              \/ mon'[m] = "none" /\ ~new_dynamic_batching'
              \/ /\ mon'[m] = "sleep"
                 /\ UNCHANGED sizes
                 /\ \/ refresh_time'[m] = 100 /\ ~refresh_warning'[m]
                                               /\ refresh_time'[m] < 2000
                    \/ refresh_time'[m] = 10000 /\ refresh_warning'[m]
                                                 /\ refresh_time'[m] > 2000
         /\ (mon[m] = "sleep" /\ mon'[m] # "sleep") =>
              mon'[m] = "check" /\ UNCHANGED sizes
         /\ (mon[m] = "check" /\ mon'[m] # "check" /\ shut_event = "clear")
              => mon'[m] = "poll"]_vars

\* After a shutdown() and a restart, a thread sleeps the long interval after
\* a poll that raised, with the warning given and both sizes as they were.
C25_Witness ==
    /\ n_ops.shutdowns = 1
    /\ shut_event = "clear"
    /\ recommended_num_objects = DefaultBatchSize
    /\ \E m \in Monitors :
         mon[m] = "sleep" /\ refresh_time[m] = 10000 /\ refresh_warning[m]

\* C26: when shutdown() has set the stop signal, every batchSizeRefresh
\* thread that is running then comes to its end.
C26_StopSignalEndsEveryMonitor ==
    \A m \in Monitors :
      (shut_event = "set" /\ mon[m] # "none") ~> (mon[m] = "none")

\* The batchSizeRefresh threads that have been started and have not ended.
RunningMonitors == {m \in Monitors : mon[m] # "none"}

\* C27: at every moment at most one batchSizeRefresh thread is running.
C27_AtMostOneMonitor == Cardinality(RunningMonitors) <= 1

\* C28: the executor only goes from none to running, from running to shut
\* down (by shutdown()) and from shut down to running; a flush() that finds
\* it shut down restarts it before it submits; every batch is submitted to
\* a running executor; and a flush() returns with the queue empty and every
\* batch sent.
C28_PoolIsRestartedBeforeSubmit ==
    [][/\ executor' # executor =>
            << executor, executor' >> \in {<< "none", "running" >>,
                                           << "running", "shutdown" >>,
                                           << "shutdown", "running" >>}
       /\ (pc[1] = "idle" /\ pc'[1] = "shutdown_join") =>
            executor' # "running"
       /\ (pc[1] = "send" /\ pc'[1] = "submit") => executor' = "running"
       /\ Len(tasks') > Len(tasks) => executor = "running"
       /\ (op[1] = "flush" /\ pc[1] # "idle" /\ pc'[1] = "idle") =>
            /\ batch_objects' = << >>
            /\ Range(sent') = 1..Len(tasks')]_vars

\* After a shutdown() that the first batchSizeRefresh thread has seen, a
\* flush() is about to return: the executor runs again and the object was
\* sent.
C28_Witness ==
    /\ n_ops.shutdowns = 1
    /\ op[1] = "flush"
    /\ pc[1] = "await_references"
    /\ executor = "running"
    /\ sent = << 1 >>
    /\ tasks[1].batch = << ObjId(1) >>
    /\ mon[1] \in {"exit", "exit_event"}

\* C29: the halving of the completion loop and the rule of a poll each
\* store the value their rule gives for the recommended object size of the
\* moment they store it: neither writes a value computed from a size that
\* the other has replaced since it was read.
C29_NoLostSizeUpdate ==
    [][/\ \A p \in threads :
            (pc[p] = "backoff_objects" /\ pc'[p] # pc[p]) =>
              recommended_num_objects' =
                backoff_recommended_object_batch_size(recommended_num_objects)
       /\ \A m \in Monitors :
            (mon[m] = "store" /\ mon'[m] # "store") =>
              recommended_num_objects' =
                periodic_check_size(recommended_num_objects, mon_new[m].rate,
                                    mon_new[m].length, num_workers)]_vars

\* C30: a step of a batchSizeRefresh thread (a loop test, a poll, a stored
\* size, a failure, a sleep, its end) leaves the two queues, the future
\* pools, the tasks, what was sent, the throughput frames, the
\* configuration, the executor and the recommended reference size as they
\* are, and moves no caller.
C30_MonitorLeavesTheQueuesAlone ==
    [][(\E m \in Monitors : mon[m] # "none" /\ mon'[m] # mon[m]) =>
         UNCHANGED << queues, pools, history, frames, config, execs,
                      recommended_num_references, pc, op >>]_vars

\* A batchSizeRefresh thread has polled and, after shutdown(), ended: the
\* size is the one written at its end and the object added before is still
\* in the queue.
C30_Witness ==
    /\ n_ops.polls = 1
    /\ n_ops.shutdowns = 1
    /\ mon = [m \in Monitors |-> "none"]
    /\ shut_event = "none"
    /\ recommended_num_objects = SizeAfterStop
    /\ batch_objects = << ObjId(1) >>
    /\ tasks = << >>

\* Where operation x stands in s.
Pos(s, x) == CHOOSE i \in 1..Len(s) : s[i] = x

\* The operations of batch g that no earlier batch held.
Fresh(g) == {x \in Range(tasks[g].batch) :
               \A f \in 1..(g - 1) : x \notin Range(tasks[f].batch)}

\* C31: the object queue changes only by an operation appended at its end,
\* by the operations of a failed batch appended at its end in the order of
\* that batch, or by being emptied; a submitted batch is the queue of that
\* moment in its order. Hence in every batch the operations added for the
\* first time stand in the order they were added, and two operations that
\* were together in an earlier batch stand in the order they had there.
C31_BatchesKeepAppendOrder ==
    /\ [][/\ (batch_objects' # batch_objects =>
                (\/ batch_objects' = << >>
                 \/ batch_objects' = Append(batch_objects, ObjId(n_ops'.objs))
                                     /\ n_ops'.objs = n_ops.objs + 1
                 \/ \E f \in TakenNow :
                      batch_objects' = batch_objects
                        \o failed_from(tasks[f].errors,
                                       DOMAIN tasks[f].errors)))
           /\ (Len(tasks') > Len(tasks)
                 /\ tasks'[Len(tasks')].kind = "obj" =>
                tasks'[Len(tasks')].batch = batch_objects)]_vars
    /\ [](\A g \in ObjectTasks :
            /\ \A x, y \in Fresh(g) :
                 x < y => Pos(tasks[g].batch, x) < Pos(tasks[g].batch, y)
            /\ \A f \in ObjectTasks : \A x, y \in Range(tasks[f].batch) :
                 (f < g /\ x \in Range(tasks[g].batch)
                        /\ y \in Range(tasks[g].batch)
                        /\ Pos(tasks[f].batch, x) < Pos(tasks[f].batch, y))
                   => Pos(tasks[g].batch, x) < Pos(tasks[g].batch, y))

\* Two batches failed and were taken second first: their operations are
\* queued in that order, behind one another.
C31_Witness ==
    /\ Len(tasks) = 2
    /\ tasks[1].exc /\ tasks[2].exc
    /\ tasks[2].handled = 1 /\ tasks[1].handled = 2
    /\ batch_objects = tasks[2].batch \o tasks[1].batch
    /\ pc[1] = "backoff_objects"

\* The failed batches whose operations were put back and whose backoff ran.
BackedOff == {f \in ObjectTasks : tasks[f].exc /\ tasks[f].handled > 0
                                  /\ ~(\E p \in Producers : pc[p] = "backoff_objects")}

\* C32: once a failed batch was put back and the size halved, the batch
\* submitted next holds no more operations than the recommended size of
\* that moment, and fewer than the failed batch.
C32_NextBatchIsShrunk ==
    [][(Len(tasks') > Len(tasks) /\ tasks'[Len(tasks')].kind = "obj"
          /\ BackedOff # {}) =>
         /\ Len(tasks'[Len(tasks')].batch) <= recommended_num_objects
         /\ \A f \in BackedOff :
              (\A g \in BackedOff : g <= f) =>
                Len(tasks'[Len(tasks')].batch) < Len(tasks[f].batch)]_vars

\* How many batches whose send completed without an exception hold x.
Delivered(x) ==
    Cardinality(UNION {{<< f, i >> : i \in {j \in 1..Len(tasks[f].batch) :
                                                tasks[f].batch[j] = x}} :
                         f \in {g \in ObjectTasks :
                                  tasks[g].done /\ ~tasks[g].exc}})

\* The single producer is back from flush().
FlushReturned == pc[1] = "idle" /\ op[1] = "flush"

\* C33: when flush() has returned, every object added so far is either in
\* exactly one batch whose send completed without an exception, or exactly
\* once in the object queue, and not both.
C33_EveryObjectAccountedOnce ==
    FlushReturned =>
      /\ future_pool_objects = << >>
      /\ \A f \in ObjectTasks : tasks[f].done /\ (tasks[f].exc => tasks[f].handled > 0)
      /\ \A k \in 1..n_ops.objs :
           Delivered(ObjId(k)) + Count(batch_objects, ObjId(k)) = 1

\* flush() returned with two workers after one batch went through and one
\* failed and was put back.
C33_Witness ==
    /\ FlushReturned
    /\ num_workers = 2
    /\ \E f, g \in ObjectTasks : ~tasks[f].exc /\ tasks[g].exc
    /\ batch_objects # << >>
    /\ \E k \in 1..n_ops.objs : Delivered(ObjId(k)) = 1

\* C34: a step that submits reference batches finds every object batch
\* submitted before it completed and handled; a send that returns at the
\* gate submits no reference batch and leaves the count of drained
\* reference batches as it was; no object batch is in flight beside a
\* reference batch.
C34_ReferencesAfterObjects ==
    /\ [][/\ ((Len(tasks') > Len(tasks)
                  /\ tasks'[Len(tasks')].kind = "ref") =>
                \A f \in ObjectTasks : tasks[f].done /\ tasks[f].handled > 0)
           /\ \A p \in Producers :
                (pc[p] = "gate" /\ pc'[p] = "idle") =>
                  /\ tasks' = tasks
                  /\ reference_batch_queue' = reference_batch_queue
                  /\ future_pool_references' = future_pool_references]_vars
    /\ [](\A r \in ReferenceTasks : \A f \in ObjectTasks :
            ~tasks[r].done => tasks[f].done)

\* With two workers a send returned at the gate and left a drained
\* reference batch behind; a later send submitted it after both object
\* batches.
C34_Witness ==
    /\ num_workers = 2
    /\ Cardinality(ObjectTasks) = 2
    /\ \E r \in ReferenceTasks : \A f \in ObjectTasks : f < r
    /\ Len(ref_drained) >= 1
    /\ pc[1] = "await_references"

\* C35: whenever the producer is back from an add or a flush, the object
\* pool holds no more futures than num_workers; back from flush() it holds
\* none.
C35_PoolWithinConcurrency ==
    \A p \in threads :
      /\ (Returned(p, "add_object") \/ Returned(p, "add_reference")
            \/ Returned(p, "flush")) =>
           Len(future_pool_objects) <= num_workers
      /\ Returned(p, "flush") => future_pool_objects = << >>

\* With two workers an add returned at the gate and left its batch in
\* flight in the pool.
C35_Witness ==
    /\ Returned(1, "add_object")
    /\ num_workers = 2
    /\ Len(future_pool_objects) = 1
    /\ ~tasks[future_pool_objects[1]].done

\* C36: a poll that got a positive rate and a ratio queueLength / rate
\* below 10 stores a recommended object size of at least 1.
C36_ZeroOnlyUnderSevereOverload ==
    [][\A m \in Monitors :
         (mon[m] = "store" /\ mon'[m] = "check"
            /\ mon_new[m].rate > 0
            /\ mon_new[m].length < 10 * mon_new[m].rate) =>
           recommended_num_objects' >= 1]_vars

\* C37: a step of the batchSizeRefresh thread leaves the recommended
\* reference size, both throughput frames and num_workers as they were;
\* the recommended reference size changes only in the backoff of the
\* reference flush-completion handler, and it is never 0.
C37_PollChangesOnlyTheObjectSize ==
    /\ [][/\ (mon' # mon \/ mon_new' # mon_new) =>
                /\ recommended_num_references' = recommended_num_references
                /\ frames' = frames
                /\ num_workers' = num_workers
           /\ (recommended_num_references' # recommended_num_references =>
                \E p \in threads : /\ pc[p] = "backoff_references"
                                    /\ pc'[p] = "await_references")]_vars
    /\ [](recommended_num_references >= 1)

\* The monitor stored a new object size after the reference handler had
\* halved the reference size.
C37_Witness ==
    /\ recommended_num_references < batch_size
    /\ recommended_num_objects \notin {batch_size, batch_size \div 2}
    /\ \E m \in Monitors : mon[m] = "check"
    /\ n_ops.polls >= 1

\* A producer waits in __auto_create with size 0 and shutdown() is called.
ShutdownCalledWhileBlocked ==
    /\ pc[1] = "wait"
    /\ recommended_num_objects = 0
    /\ pc[2] = "shutdown_join"

\* C38: the end of the monitor loop sets the recommended object size to 10
\* and then the Event attribute to None; a producer that waits in
\* __auto_create with size 0 when shutdown() is called leaves the wait
\* loop in the end; and start() with the attribute at None starts a
\* batchSizeRefresh thread.
C38_StopReleasesBlockedProducer ==
    /\ [][\A m \in Monitors :
            /\ (mon[m] = "exit" /\ mon'[m] # "exit") =>
                 recommended_num_objects' = SizeAfterStop
            /\ (mon[m] = "exit_event" /\ mon'[m] # "exit_event") =>
                 shut_event' = "none"]_vars
    /\ [][(shut_event = "none" /\ shut_event' = "clear") =>
            \E m \in Monitors : mon[m] = "none" /\ mon'[m] = "check"]_vars
    /\ (ShutdownCalledWhileBlocked ~> pc[1] # "wait")

\* The producer is inside flush().
InFlush(p) == op[p] = "flush" /\ pc[p] # "idle"

\* C39: a flush() that was called returns in the end, and on its way it is
\* never in the wait loop of __auto_create, whatever the recommended sizes.
C39_FlushTerminates ==
    /\ [](\A p \in threads : InFlush(p) => pc[p] # "wait")
    /\ \A p \in Producers : InFlush(p) ~> Returned(p, "flush")

\* flush() is waiting for its batch while the recommended size is 0.
C39_Witness ==
    /\ InFlush(1)
    /\ recommended_num_objects = 0
    /\ pc[1] = "await_objects"
    /\ pending[1] # {}

\* pattern is a substring of message.
Substring(message, pattern) ==
    \E i \in 0..(Len(message) - Len(pattern)) :
      \A j \in 1..Len(pattern) : message[i + j] = pattern[j]

\* Some error message of the call's entry contains one of the substrings.
SomeMessageContains(patterns) ==
    \E k \in 1..Len(skip_call.entry.messages) : \E pattern \in patterns :
      Substring(skip_call.entry.messages[k], pattern)

\* The entry of the call has no error list, or an empty one.
NoErrorList ==
    skip_call.entry.shape # "errors" \/ skip_call.entry.messages = << >>

\* C40: _skip_objects_retry returns skip for an entry without an error
\* list; otherwise with an exclude list it returns skip exactly when some
\* message contains an excluded substring, whatever the include list; with
\* only an include list it returns skip exactly when no message contains
\* an included substring; with neither list it returns retry.
C40_SkipObjectsRetryTable ==
    skip_result # "unset" =>
      /\ NoErrorList => skip_result = "skip"
      /\ (~NoErrorList /\ skip_call.errors_to_exclude.given) =>
           (skip_result = "skip"
              <=> SomeMessageContains(skip_call.errors_to_exclude.patterns))
      /\ (~NoErrorList /\ ~skip_call.errors_to_exclude.given
             /\ skip_call.errors_to_include.given) =>
           (skip_result = "skip"
              <=> ~SomeMessageContains(skip_call.errors_to_include.patterns))
      /\ (~NoErrorList /\ ~skip_call.errors_to_exclude.given
             /\ ~skip_call.errors_to_include.given) =>
           skip_result = "retry"

\* Both lists are given and no message contains a substring of either: the
\* exclude list decides and the entry is retried.
C40_Witness ==
    /\ skip_result = "retry"
    /\ ~NoErrorList
    /\ skip_call.errors_to_exclude.given
    /\ skip_call.errors_to_include.given
    /\ skip_call.errors_to_include.patterns # {}
    /\ ~SomeMessageContains(skip_call.errors_to_include.patterns)

====
